---- MODULE Spec2Model ----
(***************************************************************************)
(* Model of the value-resolution engine of packages/configraph            *)
(* (src/packages/configraph/src/resolvers.ts): ConfigValueResolver,        *)
(* ConfigValueResolverBranch and ResolverContext.                          *)
(*                                                                         *)
(* One resolver tree is modelled: resolver 1 is the resolver attached to   *)
(* the config node; when it is a branch-set its three branches own the     *)
(* inner resolvers 2, 3 and 4, and resolver 4 may itself be a branch-set   *)
(* whose two branches own the inner resolvers 5 and 6.  A branch and the   *)
(* inner resolver it owns are in 1-1 correspondence (linkedBranch), so a   *)
(* branch is named by the id of its inner resolver.                        *)
(*                                                                         *)
(* resolve() is an async function: it is modelled as a stack of frames,    *)
(* one per resolve call in progress, each with a program position; every   *)
(* call of a user-supplied function and every await is one step whose      *)
(* outcome is drawn from the behaviours such a function can have.          *)
(***************************************************************************)
EXTENDS Integers, Sequences, FiniteSets, TLC

VARIABLES
    def,          \* the resolver definitions (fixed at construction)
    resolvers,    \* r -> the mutable fields of ConfigValueResolver r
    branches,     \* b -> the mutable fields of ConfigValueResolverBranch b
    node,         \* the config node "X" of the owning entity (external graph)
    stack,        \* the resolve() calls in progress, outermost first
    trace,        \* what the current / most recent top-level resolve call did
    callOutcome,  \* how the most recent top-level call ended
    escaped,      \* the error that call raised to its caller, if any
    attempts,     \* number of top-level resolve calls made so far
    graph,        \* the nodes of an entity and the scheduler that drives them
    schemaErrors, \* configNode.schemaErrors of the node that owns the resolver tree
    call          \* a call of a function outside resolve(): its inputs and result

vars == <<def, resolvers, branches, node, stack, trace, callOutcome, escaped, attempts,
          graph, schemaErrors, call>>

\* ---------------------------------------------------------------- bounds

\* top-level resolve calls in one behaviour
MaxAttempts == 2

\* ---------------------------------------------------------------- values

\* JavaScript's undefined and null, and the other config values used
Undefined == "undefined"
Null == "null"

Resolvers == 1..6

\* paths a user function may pass to ctx.get: "X" names a node of the
\* entity, "Q" names none
ExistingPath == "X"
MissingPath == "Q"

\* a second node of the entity, which user functions never read
OtherPath == "Y"

\* node.getFullPath() of the node at a path
FullPath(p) == "entity!" \o p

\* ---------------------------------------------------------------- errors

\* An error object.  cls is its class, retryable its retryable flag,
\* origin the place that created it, branch the branch a condition error
\* names (0 when none), cause the class of the error it wraps.
MkError(cls, retryable, origin, branch, cause) ==
    [cls |-> cls, retryable |-> retryable, origin |-> origin,
     branch |-> branch, cause |-> cause]

\* resolutionError === undefined
NoError == MkError("undefined", FALSE, "none", 0, "none")

\* a value thrown by user code that is not a ResolutionError
PlainError(origin) == MkError("Error", FALSE, origin, 0, "none")

\* new ResolutionError(...): the class lives in ./errors; its retryable
\* flag defaults to false
ResolutionError(origin, branch, cause) ==
    MkError("ResolutionError", FALSE, origin, branch, cause)

DependencyNotResolvedResolutionError ==
    MkError("DependencyNotResolvedResolutionError", TRUE, "get", 0, "none")

DependencyInvalidResolutionError ==
    MkError("DependencyInvalidResolutionError", FALSE, "get", 0, "none")

\* err instanceof ResolutionError
IsResolutionError(e) ==
    e.cls \in {"ResolutionError", "DependencyNotResolvedResolutionError",
               "DependencyInvalidResolutionError"}

\* ---------------------------------------------------------------- definitions

\* def.kind[r]: "leaf" when the definition of r has a resolve function,
\* "branches" when it has resolveBranches, "absent" when the tree holds no
\* resolver r.  def.isDefault[b]: the isDefault flag of branch b.
\* def.identity[r]: whether icon and label of r are static strings or
\* functions of the context.  def.cacheKey[r]: whether cacheKey of r is
\* absent, a static string or a function of the context.  def.switchBy:
\* for a tree built by switchBy, the path of the discriminant (key) and
\* the key and the static value of each case, in declared order.
KindsOfLeafTree == [r \in Resolvers |-> IF r = 1 THEN "leaf" ELSE "absent"]

KindsOfFlatTree ==
    [r \in Resolvers |-> IF r = 1 THEN "branches" ELSE IF r \in 2..4 THEN "leaf" ELSE "absent"]

KindsOfNestedTree ==
    [r \in Resolvers |-> IF r \in {1, 4} THEN "branches" ELSE "leaf"]

DefaultFlags(S) == [b \in 2..6 |-> b \in S]

\* The resolver of the node has static identity fields and a static cache
\* key, or (in the leaf and the flat tree) functions for all three; the
\* inner resolvers have static identity fields, and those of the first
\* branch of a set a static cache key.
IdentityKinds == {"static", "fn"}

IdentityOf(rootKind) == [r \in Resolvers |-> IF r = 1 THEN rootKind ELSE "static"]

CacheKeyOf(rootKind) ==
    [r \in Resolvers |-> IF r = 1 THEN rootKind
                         ELSE IF r \in {2, 5} THEN "static" ELSE "none"]

TreeShapes ==
    { <<KindsOfLeafTree, {}>> }
    \cup { <<KindsOfFlatTree, S>> : S \in { {}, {2, 4} } }
    \cup { <<KindsOfNestedTree, S>> : S \in { {4}, {4, 6} } }

\* def.switchBy of a resolver tree that switchBy did not build
NoSwitchBy == [key |-> "none"]

Definitions ==
    { d \in { [kind |-> t[1], isDefault |-> DefaultFlags(t[2]),
              identity |-> IdentityOf(k), cacheKey |-> CacheKeyOf(k),
              switchBy |-> NoSwitchBy] :
                t \in TreeShapes, k \in IdentityKinds } :
        d.kind = KindsOfNestedTree => d.identity[1] = "static" }

\* this.branches of resolver r, in declared order (named by inner resolver)
BranchList(r) ==
    IF def.kind[r] # "branches" THEN <<>>
    ELSE IF r = 1 THEN <<2, 3, 4>>
    ELSE IF r = 4 THEN <<5, 6>>
    ELSE <<>>

Exists(r) == def.kind[r] # "absent"

\* the paths a dependency map can hold
DepPaths == { FullPath(ExistingPath), FullPath(OtherPath) }

\* a ConfigValueResolver after construction
NewResolver(r) ==
    [isResolved |-> FALSE,
     resolvedValue |-> Undefined,
     isUsingCache |-> FALSE,
     resolutionError |-> NoError,
     icon |-> IF def.identity[r] = "static" THEN "icon" ELSE Undefined,
     label |-> IF def.identity[r] = "static" THEN "label" ELSE Undefined,
     dependsOnPathsObj |-> [p \in DepPaths |-> "none"]]

\* a ConfigValueResolverBranch after construction; isActive is undefined
\* until first assigned and only its truthiness is ever read
NewBranch == [isActive |-> FALSE]

\* a node that is not resolved
UnresolvedNode == [isResolved |-> FALSE, isValid |-> FALSE, resolvedValue |-> Undefined]

\* The nodes of an entity driven by a scheduler: node n reads node
\* deps[n] through ctx.get (NoDependency: it reads none).
GraphNodes == 1..3

NoDependency == 0

\* the state of a scheduler: the pass it is in, the nodes it has still to
\* attempt in the pass, whether the pass resolved a node, whether it has
\* stopped, and the nodes it then reported as not resolved
NewGraph(deps) ==
    [deps |-> deps,
     nodes |-> [n \in GraphNodes |-> UnresolvedNode],
     attempted |-> {},
     pass |-> 0,
     queue |-> {},
     progress |-> FALSE,
     done |-> FALSE,
     reported |-> {}]

\* no scheduler: resolve is called on the resolver of one node
NoGraph == [NewGraph([n \in GraphNodes |-> NoDependency]) EXCEPT !.done = TRUE]

\* no call of a function outside resolve() is examined
NoCall == [fn |-> "none"]

\* the states the external node X can be in: not resolved (and so not
\* validated), resolved to an invalid value, resolved to a valid value
NodeStates ==
    { [isResolved |-> s[1], isValid |-> s[2],
       resolvedValue |-> IF s[1] THEN "prod" ELSE Undefined] :
        s \in { <<FALSE, FALSE>>, <<TRUE, FALSE>>, <<TRUE, TRUE>> } }

Init ==
    /\ def \in Definitions
    /\ resolvers = [r \in Resolvers |-> NewResolver(r)]
    /\ branches = [b \in 2..6 |-> NewBranch]
    /\ node \in NodeStates
    /\ stack = <<>>
    /\ trace = <<>>
    /\ callOutcome = "none"
    /\ escaped = NoError
    /\ attempts = 0
    /\ graph = NoGraph
    /\ schemaErrors = <<>>
    /\ call = NoCall

\* ---------------------------------------------------------------- helpers

\* An entry of trace: what happened (ev), to which resolver or branch (r),
\* how it came out (out) and the error involved, if any (err).
EventWith(ev, r, out, err) == [ev |-> ev, r |-> r, out |-> out, err |-> err]

Event(ev, r, out) == EventWith(ev, r, out, NoError)

Idle == stack = <<>>

Top == stack[Len(stack)]

NewFrame(r, callerCtx) ==
    [r |-> r, pc |-> "begin", cacheKey |-> Undefined, matchingBranch |-> 0,
     callerCtx |-> callerCtx, ctxDependsOn |-> {}]

\* a key is used only when it is truthy
Truthy(key) == key \notin {Undefined, ""}

\* ---------------------------------------------------------------- reset

RECURSIVE ResetResolutionState(_, _, _)
RECURSIVE ResetBranches(_, _, _, _)
RECURSIVE ResetBranchesKeepingActive(_, _, _, _)
RECURSIVE ResetBranchesShallow(_, _, _, _)

\* resetResolutionState without `b.isActive = false`
ResetBranchesKeepingActive(rs, bs, list, i) ==
    IF i > Len(list) THEN [resolvers |-> rs, branches |-> bs]
    ELSE LET sub == ResetResolutionState(rs, bs, list[i])
         IN ResetBranchesKeepingActive(sub.resolvers, sub.branches, list, i + 1)

\* resetResolutionState without `b.resolver.resetResolutionState()`
ResetBranchesShallow(rs, bs, list, i) ==
    IF i > Len(list) THEN [resolvers |-> rs, branches |-> bs]
    ELSE ResetBranchesShallow(rs, [bs EXCEPT ![list[i]].isActive = FALSE], list, i + 1)

\* this.branches?.forEach(b => { b.isActive = false; b.resolver.resetResolutionState() })
ResetBranches(rs, bs, list, i) ==
    IF i > Len(list) THEN [resolvers |-> rs, branches |-> bs]
    ELSE LET b == list[i]
             sub == ResetResolutionState(rs, [bs EXCEPT ![b].isActive = FALSE], b)
         IN ResetBranches(sub.resolvers, sub.branches, list, i + 1)

\* a resetResolutionState that leaves the dependency map as it is
ResetResolutionStateKeepingDeps(rs, bs, r) ==
    ResetBranches([rs EXCEPT ![r].resolutionError = NoError], bs, BranchList(r), 1)

\* a resetResolutionState that also deactivates the branch r is linked to
ResetResolutionStateWithLinkedBranch(rs, bs, r) ==
    ResetBranches([rs EXCEPT ![r].resolutionError = NoError,
                             ![r].dependsOnPathsObj =
                                 [p \in DepPaths |-> IF @[p] = "resolution" THEN "none" ELSE @[p]]],
                  IF r \in 2..6 THEN [bs EXCEPT ![r].isActive = FALSE] ELSE bs,
                  BranchList(r), 1)

\* resetResolutionState() of resolver r, on the state (rs, bs)
ResetResolutionState(rs, bs, r) ==
    LET cleared ==
            [rs EXCEPT ![r].resolutionError = NoError,
                       ![r].dependsOnPathsObj =
                           [p \in DepPaths |-> IF @[p] = "resolution" THEN "none" ELSE @[p]]]
    IN ResetBranches(cleared, bs, BranchList(r), 1)

\* ---------------------------------------------------------------- context

\* The result of running code that may throw: st is the state it leaves.
Thrown(err, st, evs) ==
    [threw |-> TRUE, err |-> err, value |-> Undefined, st |-> st, evs |-> evs]

Returned(value, st, evs) ==
    [threw |-> FALSE, err |-> NoError, value |-> value, st |-> st, evs |-> evs]

\* a get that records the dependency only once its checks have passed
GetRecordingAfterChecks(r, st, path) ==
    IF path # ExistingPath
    THEN Thrown(PlainError("get"), st, <<Event("get", r, "missing")>>)
    ELSE IF ~node.isResolved
    THEN Thrown(DependencyNotResolvedResolutionError, st,
                <<Event("get", r, "notResolved")>>)
    ELSE IF ~node.isValid
    THEN Thrown(DependencyInvalidResolutionError, st, <<Event("get", r, "invalid")>>)
    ELSE Returned(node.resolvedValue,
                  [rec |-> [st.rec EXCEPT !.dependsOnPathsObj[FullPath(path)] =
                                IF @ = "none" THEN "resolution" ELSE @],
                   ctxDependsOn |-> st.ctxDependsOn \cup {FullPath(path)}],
                  <<Event("get", r, "ok")>>)

\* a get that hands out the value of the node whatever its state
GetNodeUnchecked(target, r, st, path) ==
    Returned(target.resolvedValue,
             [rec |-> [st.rec EXCEPT !.dependsOnPathsObj[FullPath(path)] =
                           IF @ = "none" THEN "resolution" ELSE @],
              ctxDependsOn |-> st.ctxDependsOn \cup {FullPath(path)}],
             <<Event("get", r, "ok")>>)

\* a get whose not-resolved failure is not retryable
GetNodeFailingTerminally(target, r, st, path) ==
    LET fp == FullPath(path)
        st1 == [rec |-> [st.rec EXCEPT !.dependsOnPathsObj[fp] =
                             IF @ = "none" THEN "resolution" ELSE @],
                ctxDependsOn |-> st.ctxDependsOn \cup {fp}]
    IN IF ~target.isResolved \/ ~target.isValid
       THEN Thrown(DependencyInvalidResolutionError, st1, <<Event("get", r, "invalid")>>)
       ELSE Returned(target.resolvedValue, st1, <<Event("get", r, "ok")>>)

\* lines 426-444 of ctx.get: the node `target` was found at `path`
GetNode(target, r, st, path) ==
    LET fp == FullPath(path)
        st1 == [rec |-> [st.rec EXCEPT !.dependsOnPathsObj[fp] =
                             IF @ = "none" THEN "resolution" ELSE @],
                ctxDependsOn |-> st.ctxDependsOn \cup {fp}]
    IN IF ~target.isResolved
       THEN Thrown(DependencyNotResolvedResolutionError, st1,
                   <<Event("get", r, "notResolved")>>)
       ELSE IF ~target.isValid
       THEN Thrown(DependencyInvalidResolutionError, st1,
                   <<Event("get", r, "invalid")>>)
       ELSE Returned(target.resolvedValue, st1, <<Event("get", r, "ok")>>)

\* a get that checks the validity of the node before its resolution
GetCheckingValidFirst(r, st, path) ==
    IF path # ExistingPath
    THEN Thrown(PlainError("get"), st, <<Event("get", r, "missing")>>)
    ELSE LET fp == FullPath(path)
             st1 == [rec |-> [st.rec EXCEPT !.dependsOnPathsObj[fp] =
                                  IF @ = "none" THEN "resolution" ELSE @],
                     ctxDependsOn |-> st.ctxDependsOn \cup {fp}]
         IN IF ~node.isValid
            THEN Thrown(DependencyInvalidResolutionError, st1,
                        <<Event("get", r, "invalid")>>)
            ELSE IF ~node.isResolved
            THEN Thrown(DependencyNotResolvedResolutionError, st1,
                        <<Event("get", r, "notResolved")>>)
            ELSE Returned(node.resolvedValue, st1, <<Event("get", r, "ok")>>)

\* a get that records the dependency with `=` in place of `||=`
GetOverwriting(r, st, path) ==
    IF path # ExistingPath
    THEN Thrown(PlainError("get"), st, <<Event("get", r, "missing")>>)
    ELSE LET fp == FullPath(path)
             st1 == [rec |-> [st.rec EXCEPT !.dependsOnPathsObj[fp] = "resolution"],
                     ctxDependsOn |-> st.ctxDependsOn \cup {fp}]
         IN IF ~node.isResolved
            THEN Thrown(DependencyNotResolvedResolutionError, st1,
                        <<Event("get", r, "notResolved")>>)
            ELSE IF ~node.isValid
            THEN Thrown(DependencyInvalidResolutionError, st1,
                        <<Event("get", r, "invalid")>>)
            ELSE Returned(node.resolvedValue, st1, <<Event("get", r, "ok")>>)

\* ctx.get(path) on a context bound to resolver r.  st holds the record
\* of r (st.rec) and the context's own dependsOnPathsObj (st.ctxDependsOn).
Get(r, st, path) ==
    IF path # ExistingPath
    THEN Thrown(PlainError("get"), st, <<Event("get", r, "missing")>>)
    ELSE GetNode(node, r, st, path)

\* ---------------------------------------------------------------- user code

\* What a user-supplied function does in one call: it may first read a
\* path through ctx.get (an error of ctx.get propagates out of it), and
\* then returns a value (kind "return"), returns the value ctx.get gave
\* it (kind "returnGotten"), or throws (kind "throw"); kind "picked" is
\* the resolve function of a picked value resolver, kind "equals" the
\* condition of a switchBy case, which compares what ctx.get gave it
\* with its case key.
Behaviour(get, kind, value, err) ==
    [get |-> get, kind |-> kind, value |-> value, err |-> err]

\* a ResolutionError made by user code, with either retryable flag
UserResolutionError(retryable) ==
    MkError("ResolutionError", retryable, "user", 0, "none")

\* behaviours of def.resolve(ctx)
EvalBehaviours ==
    { Behaviour("none", "return", v, NoError) : v \in {"A", Undefined, Null} }
    \cup { Behaviour("none", "throw", Undefined, e) :
             e \in { PlainError("user"), UserResolutionError(FALSE),
                     UserResolutionError(TRUE) } }
    \cup { Behaviour(ExistingPath, "returnGotten", Undefined, NoError),
           Behaviour(MissingPath, "returnGotten", Undefined, NoError),
           Behaviour("none", "picked", Undefined, NoError),
           Behaviour("none", "picked", "valueTransform", NoError) }

\* behaviours of def.resolve(ctx) of the resolver a branch owns: a static
\* value or an inline function, as processInlineResolverDef builds them
InnerEvalBehaviours ==
    { Behaviour("none", "return", v, NoError) : v \in {"A", Undefined} }
    \cup { Behaviour("none", "throw", Undefined, PlainError("user")),
           Behaviour(ExistingPath, "returnGotten", Undefined, NoError) }

\* lines 361-370: the resolver processInlineResolverDef builds for the
\* static value of switchBy case r returns that value
StaticEvalBehaviours(r) == { Behaviour("none", "return", def.switchBy.caseValue[r], NoError) }

EvalBehavioursOf(r) ==
    IF def.switchBy.key # "none" THEN StaticEvalBehaviours(r)
    ELSE IF r = 1 THEN EvalBehaviours
    ELSE InnerEvalBehaviours

\* behaviours of branch.def.condition(ctx)
ConditionBehaviours ==
    { Behaviour("none", "return", v, NoError) : v \in BOOLEAN }
    \cup { Behaviour("none", "throw", FALSE, PlainError("user")),
           Behaviour(ExistingPath, "return", TRUE, NoError) }

\* the Error object the picked value resolver returns
ErrorValue == "new Error"

\* what a valueTransform makes of the value val
Transform(val) == "transformed " \o val

\* a picked value that throws when its source is not resolved
PickedValueThrowing(r, st, valueTransform) ==
    IF ~node.isResolved
    THEN Thrown(DependencyNotResolvedResolutionError, st, <<Event("pick", r, "notResolved")>>)
    ELSE IF valueTransform # Undefined
    THEN Returned(Transform(node.resolvedValue), st, <<Event("pick", r, "transformed")>>)
    ELSE Returned(node.resolvedValue, st, <<Event("pick", r, "ok")>>)

\* lines 541-552: the resolve function of createdPickedValueResolver, with
\* the node X as its source and valueTransform given or undefined; it
\* reads the source node directly and returns (does not throw) an Error
\* when the source is not resolved
PickedValue(r, st, valueTransform) ==
    IF ~node.isResolved
    THEN Returned(ErrorValue, st, <<Event("pick", r, "notResolved")>>)
    ELSE IF valueTransform # Undefined
    THEN Returned(Transform(node.resolvedValue), st, <<Event("pick", r, "transformed")>>)
    ELSE Returned(node.resolvedValue, st, <<Event("pick", r, "ok")>>)

\* one call of a user function with behaviour b, on a context bound to r
RunUserFn(b, r, st) ==
    LET g == IF b.kind = "picked" THEN PickedValue(r, st, b.value)
             ELSE IF b.get = "none" THEN Returned(Undefined, st, <<>>)
             ELSE Get(r, st, b.get)
    IN IF g.threw \/ b.kind = "picked" THEN g
       ELSE IF b.kind = "throw" THEN Thrown(b.err, g.st, g.evs)
       ELSE IF b.kind = "returnGotten" THEN g
       ELSE IF b.kind = "equals" THEN Returned(g.value = b.value, g.st, g.evs)
       ELSE Returned(b.value, g.st, g.evs)

\* ---------------------------------------------------------------- control

\* the resolve call on top of the stack goes on with its frame changed
Continue(rs, bs, evs, frame) ==
    /\ resolvers' = rs
    /\ branches' = bs
    /\ stack' = [stack EXCEPT ![Len(stack)] = frame]
    /\ trace' = trace \o evs
    /\ UNCHANGED <<def, graph, schemaErrors, call, node, callOutcome, escaped, attempts>>

\* the resolve call on top of the stack returns; the call awaiting it
\* (line 268), if any, goes on
Return(rs, bs, evs) ==
    LET rest == SubSeq(stack, 1, Len(stack) - 1)
    IN /\ resolvers' = rs
       /\ branches' = bs
       /\ stack' = IF Len(rest) = 0 THEN rest
                   ELSE [rest EXCEPT ![Len(rest)].pc = "afterChild"]
       /\ trace' = trace \o evs \o <<Event("end", Top.r, "returned")>>
       /\ callOutcome' = IF Len(rest) = 0 THEN "returned" ELSE callOutcome
       /\ UNCHANGED <<def, graph, schemaErrors, call, node, escaped, attempts>>

\* an error escapes the resolve call on top of the stack; the calls
\* awaiting it (line 268) have no handler, so it escapes every one of them
Raise(rs, bs, evs, err) ==
    /\ resolvers' = rs
    /\ branches' = bs
    /\ stack' = <<>>
    /\ trace' = trace \o evs \o <<EventWith("raise", Top.r, err.origin, err)>>
    /\ callOutcome' = "threw"
    /\ escaped' = err
    /\ UNCHANGED <<def, graph, schemaErrors, call, node, attempts>>

\* ---------------------------------------------------------------- resolve

\* a caller invokes resolve(ctx) on the node's resolver, with a context
\* bound to that resolver
CallResolve ==
    /\ Idle
    /\ attempts < MaxAttempts
    /\ stack' = <<NewFrame(1, TRUE)>>
    /\ trace' = <<>>
    /\ callOutcome' = "pending"
    /\ escaped' = NoError
    /\ attempts' = attempts + 1
    /\ UNCHANGED <<def, graph, schemaErrors, call, resolvers, branches, node>>

\* what the calls of def.icon, def.label and def.cacheKey can do
IdentityBehaviours(r) ==
    {"ok"}
    \cup (IF def.identity[r] = "fn" THEN {"iconThrows", "labelThrows"} ELSE {})
    \cup (IF def.cacheKey[r] = "fn" THEN {"cacheKeyThrows", "cacheKeyEmpty"} ELSE {})

\* the cache key computed at lines 214-219
ComputeCacheKey(r, ib) ==
    CASE def.cacheKey[r] = "static" -> "key"
      [] def.cacheKey[r] = "fn" -> IF ib = "cacheKeyEmpty" THEN "" ELSE "fnkey"
      [] OTHER -> Undefined

\* where resolve goes after the cache key is computed (line 221)
AfterCacheKey(cacheKey) == IF Truthy(cacheKey) THEN "cacheRead" ELSE "body"

\* lines 205-221: reset, icon, label, cache key
Begin ==
    /\ ~Idle
    /\ Top.pc = "begin"
    /\ \E ib \in IdentityBehaviours(Top.r) :
         LET r == Top.r
             reset == ResetResolutionState(resolvers, branches, r)
             withIcon ==
                 IF def.identity[r] = "fn"
                 THEN [reset.resolvers EXCEPT ![r].icon = "icon(ctx)"]
                 ELSE reset.resolvers
             withLabel ==
                 IF def.identity[r] = "fn"
                 THEN [withIcon EXCEPT ![r].label = "label(ctx)"]
                 ELSE withIcon
             cacheKey == ComputeCacheKey(r, ib)
             began == <<Event("begin", r, "called")>>
         IN CASE ib = "iconThrows" ->
                   Raise(reset.resolvers, reset.branches, began, PlainError("icon"))
              [] ib = "labelThrows" ->
                   Raise(withIcon, reset.branches, began, PlainError("label"))
              [] ib = "cacheKeyThrows" ->
                   Raise(withLabel, reset.branches, began, PlainError("cacheKey"))
              [] OTHER ->
                   Continue(withLabel, reset.branches, began,
                            [Top EXCEPT !.cacheKey = cacheKey,
                                        !.pc = AfterCacheKey(cacheKey)])

\* The outcomes of `await ctx.getCacheItem(key)`.  The context of a
\* top-level call is supplied by the caller and its cache adapter may
\* miss, hit or fail; the context resolve builds for a branch is a
\* ResolverContext, whose getCacheItem always returns undefined.
GetCacheItemOutcomes(callerCtx) ==
    IF callerCtx THEN {"miss", "hit", "reject"} ELSE {"miss"}

CachedValue == "C"

\* a cache hit that sets the value alone
UseCachedValueLeavingUnresolved(rec, cachedValue) ==
    [rec EXCEPT !.resolvedValue = cachedValue, !.isUsingCache = TRUE]

\* lines 226-228: the fields a cache hit sets
UseCachedValue(rec, cachedValue) ==
    [rec EXCEPT !.resolvedValue = cachedValue,
                !.isResolved = TRUE,
                !.isUsingCache = TRUE]

\* resolve without the return of line 229
AfterCacheReadFallingThrough(out) == "body"

\* lines 224-230: a hit ends the attempt, a miss goes on
AfterCacheRead(out) == IF out = "hit" THEN "return" ELSE "body"

\* lines 221-231: the cache read
CacheRead ==
    /\ ~Idle
    /\ Top.pc = "cacheRead"
    /\ \E out \in GetCacheItemOutcomes(Top.callerCtx) :
         LET r == Top.r
             read == <<Event("cacheRead", r, out)>>
             rs == IF out = "hit"
                   THEN [resolvers EXCEPT ![r] = UseCachedValue(@, CachedValue)]
                   ELSE resolvers
         IN IF out = "reject"
            THEN Raise(resolvers, branches, read, PlainError("cache"))
            ELSE IF AfterCacheRead(out) = "return"
            THEN Return(rs, branches, read)
            ELSE Continue(rs, branches, read, [Top EXCEPT !.pc = "body"])

\* ---------------------------------------------------------------- cache write

\* a cache write guarded by the cache key alone
ShouldSetCacheItemForAnyValue(cacheKey, resolvedValue) == Truthy(cacheKey)

\* line 295: whether the result is saved in the cache
ShouldSetCacheItem(cacheKey, resolvedValue) ==
    Truthy(cacheKey) /\ resolvedValue # Undefined /\ resolvedValue # Null

\* The outcomes of `await ctx.setCacheItem(key, value)`: the adapter of a
\* caller's context may fail; ResolverContext.setCacheItem does nothing.
SetCacheItemOutcomes(callerCtx) ==
    IF callerCtx THEN {"ok", "reject"} ELSE {"ok"}

\* lines 294-299: the cache write and the end of resolve, from the state
\* (rs, bs) the branch or the leaf case left
SaveAndReturn(rs, bs, evs) ==
    LET r == Top.r
        written == <<Event("cacheWrite", r, rs[r].resolvedValue)>>
    IN IF ShouldSetCacheItem(Top.cacheKey, rs[r].resolvedValue)
       THEN \E out \in SetCacheItemOutcomes(Top.callerCtx) :
              IF out = "reject"
              THEN Raise(rs, bs, evs \o written, PlainError("cache"))
              ELSE Return(rs, bs, evs \o written)
       ELSE Return(rs, bs, evs)

\* ---------------------------------------------------------------- branches

\* the local state a synchronous piece of resolve works on
Local(r, frame) == [rec |-> resolvers[r], ctxDependsOn |-> frame.ctxDependsOn]

\* the catch at lines 240-242: the error stored when a condition throws
ConditionError(b, err) == ResolutionError("condition", b, err.cls)

RECURSIVE FindMatching(_, _, _, _, _, _)

\* lines 236-244: _.find(this.branches, ...) from index i on.  cb gives
\* the behaviour of each condition called; the result is the branch found
\* (0 for none), the state left and the events
FindMatching(r, list, i, cb, st, evs) ==
    IF i > Len(list) THEN [matching |-> 0, st |-> st, evs |-> evs]
    ELSE LET b == list[i]
         IN IF def.isDefault[b] THEN FindMatching(r, list, i + 1, cb, st, evs)
            ELSE LET res == RunUserFn(cb[b], r, st)
                 IN IF res.threw
                    THEN FindMatching(r, list, i + 1, cb,
                             [res.st EXCEPT !.rec.resolutionError = ConditionError(b, res.err)],
                             evs \o res.evs
                                 \o <<EventWith("condition", b, "throw", res.err)>>)
                    ELSE IF res.value
                    THEN [matching |-> b, st |-> res.st,
                          evs |-> evs \o res.evs \o <<Event("condition", b, "true")>>]
                    ELSE FindMatching(r, list, i + 1, cb, res.st,
                             evs \o res.evs \o <<Event("condition", b, "false")>>)

RECURSIVE FindDefault(_, _)
RECURSIVE FindDefaultLast(_, _)
RECURSIVE FindDefaultOrFirst(_, _)

\* a find that returns the last branch flagged default
FindDefaultLast(list, i) ==
    IF i > Len(list) THEN 0
    ELSE LET later == FindDefaultLast(list, i + 1)
         IN IF later # 0 THEN later
            ELSE IF def.isDefault[list[i]] THEN list[i]
            ELSE 0

\* a find that falls back to the first branch when none is flagged default
FindDefaultOrFirst(list, i) ==
    IF i > Len(list) THEN list[1]
    ELSE IF def.isDefault[list[i]] THEN list[i]
    ELSE FindDefaultOrFirst(list, i + 1)

\* line 252: _.find(this.branches, (branch) => branch.def.isDefault)
FindDefault(list, i) ==
    IF i > Len(list) THEN 0
    ELSE IF def.isDefault[list[i]] THEN list[i]
    ELSE FindDefault(list, i + 1)

Range(list) == { list[i] : i \in 1..Len(list) }

\* lines 255-257: every branch of the set is active iff it is the match
Activate(bs, list, matchingBranch) ==
    [b \in 2..6 |-> IF b \in Range(list)
                    THEN [bs[b] EXCEPT !.isActive = (b = matchingBranch)]
                    ELSE bs[b]]

\* a switchBy condition that matches every value of the discriminant
SwitchByConditionAlwaysTrue(b) == Behaviour("none", "return", TRUE, NoError)

\* line 574: condition: (ctx) => ctx.get(switchByKey) === itemKey
SwitchByCondition(b) ==
    Behaviour(def.switchBy.key, "equals", def.switchBy.caseKey[b], NoError)

\* what the conditions of the non-default branches of a set do in one
\* selection: those of a switchBy are fixed, a user's are any
ConditionChoices(list) ==
    IF def.switchBy.key # "none"
    THEN { [b \in { x \in Range(list) : ~def.isDefault[x] } |-> SwitchByCondition(b)] }
    ELSE [{ b \in Range(list) : ~def.isDefault[b] } -> ConditionBehaviours]

\* resolve without the early return of lines 246-249
NeverFailedEvaluatingConditions(rec) == FALSE

\* line 246: bail early if evaluating the conditions failed
FailedEvaluatingConditions(rec) == rec.resolutionError # NoError

\* lines 234-268: branch selection, up to the call of the branch's resolver
SelectBranch ==
    /\ ~Idle
    /\ Top.pc = "body"
    /\ def.kind[Top.r] = "branches"
    /\ LET r == Top.r
           list == BranchList(r)
       IN \E cb \in ConditionChoices(list) :
            LET found == FindMatching(r, list, 1, cb, Local(r, Top), <<>>)
                rs == [resolvers EXCEPT ![r] = found.st.rec]
                matchingBranch ==
                    IF found.matching # 0 THEN found.matching ELSE FindDefault(list, 1)
                bs == Activate(branches, list, matchingBranch)
            IN IF FailedEvaluatingConditions(rs[r])
               THEN Return([rs EXCEPT ![r].isResolved = FALSE], branches, found.evs)
               ELSE IF matchingBranch = 0
               THEN Raise(rs, bs, found.evs, ResolutionError("noBranch", 0, "none"))
               ELSE /\ resolvers' = rs
                    /\ branches' = bs
                    /\ stack' = [stack EXCEPT ![Len(stack)] =
                                    [Top EXCEPT !.pc = "awaitChild",
                                                !.matchingBranch = matchingBranch,
                                                !.ctxDependsOn = found.st.ctxDependsOn]]
                                \o <<NewFrame(matchingBranch, FALSE)>>
                    /\ trace' = trace \o found.evs
                                \o <<Event("delegate", matchingBranch, "called")>>
                    /\ UNCHANGED <<def, graph, schemaErrors, call, node, callOutcome, escaped, attempts>>

\* lines 269-299: the branch's resolver returned
AfterChild ==
    /\ ~Idle
    /\ Top.pc = "afterChild"
    /\ LET r == Top.r
           matchingBranchResolver == Top.matchingBranch
       IN SaveAndReturn([resolvers EXCEPT
                            ![r].resolvedValue = resolvers[matchingBranchResolver].resolvedValue,
                            ![r].isResolved = TRUE],
                        branches, <<>>)

\* ---------------------------------------------------------------- leaf

\* a catch that wraps whatever was thrown
CatchEvalErrorAlwaysWrapping(rec, err) ==
    [rec EXCEPT !.resolutionError = ResolutionError("wrap", 0, err.cls),
                !.isResolved = FALSE]

\* lines 283-289: the catch around the call of the resolve function
CatchEvalError(rec, err) ==
    [rec EXCEPT !.resolutionError =
                    IF IsResolutionError(err) THEN err
                    ELSE ResolutionError("wrap", 0, err.cls),
                !.isResolved = FALSE]

\* lines 274-299: the call of the resolve function of a leaf
EvalLeaf ==
    /\ ~Idle
    /\ Top.pc = "body"
    /\ def.kind[Top.r] = "leaf"
    /\ \E b \in EvalBehavioursOf(Top.r) :
         LET r == Top.r
             res == RunUserFn(b, r, Local(r, Top))
             evs == res.evs \o <<EventWith("evaluate", r,
                                           IF res.threw THEN "threw" ELSE "returned",
                                           res.err)>>
         IN IF res.threw
            THEN Return([resolvers EXCEPT ![r] = CatchEvalError(res.st.rec, res.err)],
                        branches, evs)
            ELSE SaveAndReturn([resolvers EXCEPT
                                   ![r] = [res.st.rec EXCEPT !.resolvedValue = res.value,
                                                             !.isResolved = TRUE]],
                               branches, evs)

\* ---------------------------------------------------------------- callers

\* a caller invokes resetResolutionState() on a resolver of the tree
CallReset ==
    /\ Idle
    /\ \E r \in { x \in Resolvers : x = 1 \/ def.kind[x] = "branches" } :
         LET reset == ResetResolutionState(resolvers, branches, r)
         IN /\ resolvers' = reset.resolvers
            /\ branches' = reset.branches
    /\ trace' = <<>>
    /\ callOutcome' = "none"
    /\ escaped' = NoError
    /\ UNCHANGED <<def, graph, schemaErrors, call, node, stack, attempts>>

\* process(): the one-time structural pass, before any resolution.  The
\* process function of a resolver that has one declares the node X as a
\* schema dependency, as those of switchBy and the picked value do; it is
\* the resolver of the node alone that has one (as in a switchBy over
\* inline definitions), or every resolver of the tree.
Process ==
    /\ Idle
    /\ attempts = 0
    /\ \E declaring \in { {1}, { r \in Resolvers : Exists(r) } } :
         resolvers' = [r \in Resolvers |->
                          IF r \in declaring
                          THEN [resolvers[r] EXCEPT
                                   !.dependsOnPathsObj[FullPath(ExistingPath)] = "schema"]
                          ELSE resolvers[r]]
    /\ UNCHANGED <<def, graph, schemaErrors, call, branches, node, stack, trace, callOutcome, escaped, attempts>>

\* the external graph resolves, invalidates or re-resolves the node X
SetNode ==
    /\ Idle
    /\ attempts < MaxAttempts
    /\ node' \in NodeStates \ {node}
    /\ UNCHANGED <<def, graph, schemaErrors, call, resolvers, branches, stack, trace, callOutcome, escaped, attempts>>

Next ==
    \/ CallResolve
    \/ Begin
    \/ CacheRead
    \/ SelectBranch
    \/ AfterChild
    \/ EvalLeaf
    \/ CallReset
    \/ Process
    \/ SetNode

Spec == Init /\ [][Next]_vars

\* ---------------------------------------------------------------- observers

RECURSIVE SelfOrChildResolutionError(_)

RECURSIVE FirstBranchError(_, _)

\* lines 110-113: the first error found in the branches' resolvers
FirstBranchError(list, i) ==
    IF i > Len(list) THEN NoError
    ELSE LET branchResolutionError == SelfOrChildResolutionError(list[i])
         IN IF branchResolutionError # NoError THEN branchResolutionError
            ELSE FirstBranchError(list, i + 1)

\* a selfOrChildResolutionError that does not look into the branches
SelfResolutionErrorOnly(r) == resolvers[r].resolutionError

\* get selfOrChildResolutionError() of resolver r
SelfOrChildResolutionError(r) ==
    IF resolvers[r].resolutionError # NoError THEN resolvers[r].resolutionError
    ELSE FirstBranchError(BranchList(r), 1)

\* get isFullyResolved() of resolver r
IsFullyResolved(r) ==
    IF ~resolvers[r].isResolved THEN FALSE
    ELSE SelfOrChildResolutionError(r) = NoError

\* the branches of r that are active
ActiveBranches(r) == { b \in Range(BranchList(r)) : branches[b].isActive }

\* the entries of trace about resolver (or branch) r
Happened(ev, r) == \E i \in 1..Len(trace) : trace[i].ev = ev /\ trace[i].r = r

HappenedWith(ev, r, out) ==
    \E i \in 1..Len(trace) : trace[i].ev = ev /\ trace[i].r = r /\ trace[i].out = out

\* the resolve attempt of r in the current top-level call returned
Ended(r) == Happened("end", r)

\* the attempt of r evaluated a condition, activated or called a branch
TouchedBranches(r) ==
    \/ \E b \in Range(BranchList(r)) : Happened("condition", b) \/ Happened("delegate", b)
    \/ ActiveBranches(r) # {}

\* ---------------------------------------------------------------- claims

\* C1 (as stated): no exception escapes resolve, whatever the icon, label
\* and cacheKey functions, the evaluation function, the conditions and the
\* cache adapter do, except the error of a branch-set with no matching
\* branch and no default.
C1_OnlyNoBranchEscapes ==
    callOutcome = "threw" => escaped.origin = "noBranch"

\* C2: in an attempt whose cache read hits, the attempt ends with the
\* cached value, isResolved and isUsingCache set, and neither the
\* evaluation function, nor a condition, nor a branch activation or
\* delegation, nor a cache write happens in it.
C2_CacheShortCircuit ==
    \A r \in Resolvers :
        HappenedWith("cacheRead", r, "hit") =>
            /\ Ended(r)
            /\ resolvers[r].resolvedValue = CachedValue
            /\ resolvers[r].isResolved
            /\ resolvers[r].isUsingCache
            /\ ~Happened("evaluate", r)
            /\ ~TouchedBranches(r)
            /\ ~Happened("cacheWrite", r)

\* the case of C2: a branch-set's attempt ended on a cache hit
C2_Witness ==
    /\ def.kind[1] = "branches"
    /\ HappenedWith("cacheRead", 1, "hit")
    /\ callOutcome = "returned"

BranchSets == { r \in Resolvers : def.kind[r] = "branches" }

Leaves == { r \in Resolvers : def.kind[r] = "leaf" }

\* the positions in trace of the conditions of r's branches
ConditionEvents(r) ==
    { i \in 1..Len(trace) :
        trace[i].ev = "condition" /\ trace[i].r \in Range(BranchList(r)) }

ConditionThrew(r) == \E i \in ConditionEvents(r) : trace[i].out = "throw"

\* the place of branch b in the declared order of r's branches
PlaceOf(r, b) == CHOOSE i \in 1..Len(BranchList(r)) : BranchList(r)[i] = b

AtMostOneActive == \A r \in BranchSets : Cardinality(ActiveBranches(r)) <= 1

SelectedBy(r) ==
    LET list == BranchList(r)
        matched == { b \in Range(list) : HappenedWith("condition", b, "true") }
        defaults == { i \in 1..Len(list) : def.isDefault[list[i]] }
    IN IF matched # {} THEN CHOOSE b \in matched : TRUE
       ELSE list[CHOOSE i \in defaults : \A j \in defaults : i <= j]

\* C4: without a throwing condition and without a cache hit, the branch
\* resolve activates is the first non-default branch in declared order
\* whose condition returns true (the conditions are tried in declared
\* order, up to the first that returns true), else the branch flagged
\* default, whose condition is never evaluated; and the branch-set's
\* resolvedValue after the attempt is that of the branch's resolver.
C4_BranchSelection ==
    \A r \in BranchSets :
        LET list == BranchList(r)
            delegated == \E b \in Range(list) : Happened("delegate", b)
        IN /\ \A b \in Range(list) : def.isDefault[b] => ~Happened("condition", b)
           /\ \A i, j \in ConditionEvents(r) :
                i < j => /\ PlaceOf(r, trace[i].r) < PlaceOf(r, trace[j].r)
                         /\ trace[i].out # "true"
           /\ (delegated \/ (Ended(r) /\ ~HappenedWith("cacheRead", r, "hit")
                                      /\ ~ConditionThrew(r))) =>
                LET chosen == SelectedBy(r)
                IN /\ ActiveBranches(r) = {chosen}
                   /\ Happened("delegate", chosen)
                   /\ \A b \in Range(list) :
                        (~def.isDefault[b] /\ PlaceOf(r, b) < PlaceOf(r, chosen)
                            /\ ~ConditionThrew(r))
                        => HappenedWith("condition", b, "false")
                   /\ def.isDefault[chosen] =>
                        \A b \in Range(list) :
                            ~def.isDefault[b] /\ ~ConditionThrew(r)
                            => HappenedWith("condition", b, "false")
                   /\ Ended(r) =>
                        resolvers[r].resolvedValue = resolvers[chosen].resolvedValue

\* the case of C4: the first condition returned false, the second true
C4_Witness ==
    /\ HappenedWith("condition", 2, "false")
    /\ HappenedWith("condition", 3, "true")
    /\ callOutcome = "returned"
    /\ ActiveBranches(1) = {3}
    /\ resolvers[1].resolvedValue = "A"

\* C5 (as stated): once a condition of a branch-set throws, no condition
\* of a later branch is evaluated in the attempt, and the stored
\* resolutionError names the first branch whose condition threw.
C5_StopsAtFirstThrowingCondition ==
    \A r \in BranchSets :
        \A i \in ConditionEvents(r) :
            trace[i].out = "throw" =>
                /\ \A j \in ConditionEvents(r) : j <= i
                /\ Ended(r) =>
                     \A k \in ConditionEvents(r) :
                        (trace[k].out = "throw" /\ \A j \in ConditionEvents(r) :
                                                      trace[j].out = "throw" => k <= j)
                        => resolvers[r].resolutionError.branch = trace[k].r

\* C6: when a condition of a branch-set throws, the attempt is aborted:
\* resolutionError is set, isResolved is false, no branch is active (not
\* the default, not a later branch whose condition returned true), no
\* inner resolver is resolved and no cache write is issued.
C6_ThrowingConditionAborts ==
    \A r \in BranchSets :
        ConditionThrew(r) =>
            /\ Ended(r)
            /\ resolvers[r].resolutionError # NoError
            /\ resolvers[r].resolutionError.origin = "condition"
            /\ ~resolvers[r].isResolved
            /\ ActiveBranches(r) = {}
            /\ \A b \in Range(BranchList(r)) :
                 ~Happened("delegate", b) /\ ~Happened("begin", b)
            /\ ~Happened("cacheWrite", r)

\* the case of C6: a condition threw and a later one returned true
C6_Witness ==
    /\ HappenedWith("condition", 2, "throw")
    /\ HappenedWith("condition", 3, "true")
    /\ Ended(1)

\* every condition of r was evaluated and returned false
NoConditionMatched(r) ==
    \A b \in Range(BranchList(r)) :
        ~def.isDefault[b] => HappenedWith("condition", b, "false")

\* C7: when every non-default condition returns false and no branch is
\* flagged default, resolve raises a ResolutionError instead of storing
\* it: resolutionError stays undefined, every branch is inactive and no
\* inner resolver is resolved.
C7_NoBranchRaises ==
    \A r \in BranchSets :
        (NoConditionMatched(r) /\ \A b \in Range(BranchList(r)) : ~def.isDefault[b]) =>
            /\ callOutcome = "threw"
            /\ escaped = ResolutionError("noBranch", 0, "none")
            /\ HappenedWith("raise", r, "noBranch")
            /\ ~Ended(r)
            /\ resolvers[r].resolutionError = NoError
            /\ ActiveBranches(r) = {}
            /\ \A b \in Range(BranchList(r)) :
                 ~Happened("delegate", b) /\ ~Happened("begin", b)

\* the case of C7: the nested branch-set has no default and no match
C7_Witness ==
    /\ def.kind[4] = "branches"
    /\ HappenedWith("condition", 5, "false")
    /\ HappenedWith("condition", 6, "false")
    /\ callOutcome = "threw"

\* the evaluation function of r threw err in this attempt
EvalThrew(r, err) ==
    \E i \in 1..Len(trace) :
        /\ trace[i].ev = "evaluate"
        /\ trace[i].r = r
        /\ trace[i].out = "threw"
        /\ trace[i].err = err

ThrowableErrors ==
    { PlainError("user"), PlainError("get"), UserResolutionError(FALSE),
      UserResolutionError(TRUE), DependencyNotResolvedResolutionError,
      DependencyInvalidResolutionError }

\* C8: when the evaluation function of a leaf throws, the attempt ends
\* with isResolved false and resolutionError set: to the thrown error
\* itself, retryable flag included, when it is a ResolutionError, else to
\* a new non-retryable ResolutionError that wraps what was thrown; and no
\* cache write is issued.
C8_LeafFailureClassification ==
    \A r \in Leaves : \A err \in ThrowableErrors :
        EvalThrew(r, err) =>
            /\ Ended(r)
            /\ ~resolvers[r].isResolved
            /\ resolvers[r].resolutionError # NoError
            /\ IsResolutionError(err) => resolvers[r].resolutionError = err
            /\ ~IsResolutionError(err) =>
                 /\ resolvers[r].resolutionError.cls = "ResolutionError"
                 /\ ~resolvers[r].resolutionError.retryable
                 /\ resolvers[r].resolutionError.origin = "wrap"
                 /\ resolvers[r].resolutionError.cause = err.cls
            /\ ~Happened("cacheWrite", r)

\* the case of C8: a retryable ResolutionError thrown by user code is kept
C8_Witness ==
    /\ EvalThrew(1, UserResolutionError(TRUE))
    /\ resolvers[1].resolutionError = UserResolutionError(TRUE)
    /\ callOutcome = "returned"

\* C9 (as stated): a leaf whose evaluation function calls ctx.get on an
\* existing, unresolved node ends the attempt with a retryable
\* resolutionError, and the node's full path is in the resolver's
\* dependency map tagged 'resolution'.
C9_TaggedResolution ==
    \A r \in Leaves :
        HappenedWith("get", r, "notResolved") =>
            /\ Ended(r)
            /\ resolvers[r].resolutionError.retryable
            /\ resolvers[r].dependsOnPathsObj[FullPath(ExistingPath)] = "resolution"

\* C9 (amended): ... ends the attempt with a retryable resolutionError,
\* and the node's full path is in the resolver's dependency map: tagged
\* 'resolution' when the map held no entry for it, and still tagged
\* 'schema' when process had recorded it as 'schema'.
C9_RetryableAndRecorded ==
    [][\A r \in Leaves :
         (~HappenedWith("get", r, "notResolved") /\ HappenedWith("get", r, "notResolved")') =>
            /\ Ended(r)'
            /\ resolvers'[r].resolutionError = DependencyNotResolvedResolutionError
            /\ resolvers'[r].resolutionError.retryable
            /\ resolvers'[r].dependsOnPathsObj[FullPath(ExistingPath)] =
                 IF resolvers[r].dependsOnPathsObj[FullPath(ExistingPath)] = "schema"
                 THEN "schema" ELSE "resolution"]_vars

\* the case of C9: the failed read was recorded as a 'resolution' entry
C9_Witness ==
    /\ HappenedWith("get", 1, "notResolved")
    /\ def.kind[1] = "leaf"
    /\ resolvers[1].resolutionError.retryable
    /\ resolvers[1].dependsOnPathsObj[FullPath(ExistingPath)] = "resolution"

\* C10 (as stated): whenever a resolve attempt of a leaf or of a
\* branch-set fails because a ctx.get call hit an unresolved node, the
\* error seen through selfOrChildResolutionError is retryable.
C10_NotResolvedStaysRetryable ==
    \A r \in Resolvers :
        (HappenedWith("get", r, "notResolved") /\ Ended(r)) =>
            SelfOrChildResolutionError(r).retryable

\* C11: ctx.get classifies its outcome in a fixed order.  A path with no
\* node throws a plain Error (no retryable flag) and records no
\* dependency; otherwise the dependency is recorded, and an unresolved
\* node gives the retryable DependencyNotResolvedResolutionError, also
\* when it is invalid too; a resolved, invalid node gives the
\* non-retryable DependencyInvalidResolutionError; only a resolved and
\* valid node returns its resolvedValue.  (The event after a get in trace
\* is that of the user function that called it.)
C11_GetClassification ==
    [][\A i \in (Len(trace) + 1)..Len(trace') :
         trace'[i].ev = "get" =>
            LET r == trace'[i].r
                out == trace'[i].out
                caller == trace'[i + 1]
                recorded == resolvers'[r].dependsOnPathsObj[FullPath(ExistingPath)]
            IN /\ out \in {"missing", "notResolved", "invalid", "ok"}
               /\ out = "missing" =>
                    /\ caller.err = PlainError("get")
                    /\ ~caller.err.retryable
                    /\ resolvers'[r].dependsOnPathsObj = resolvers[r].dependsOnPathsObj
               /\ out # "missing" => recorded \in {"schema", "resolution"}
               /\ out = "notResolved" =>
                    /\ ~node.isResolved
                    /\ caller.err = DependencyNotResolvedResolutionError
                    /\ caller.err.retryable
               /\ out = "invalid" =>
                    /\ node.isResolved /\ ~node.isValid
                    /\ caller.err = DependencyInvalidResolutionError
                    /\ ~caller.err.retryable
               /\ out = "ok" =>
                    /\ node.isResolved /\ node.isValid
                    /\ caller.err = NoError
                    /\ def.kind[r] = "leaf" => resolvers'[r].resolvedValue = node.resolvedValue
      ]_vars

\* the case of C11: a get on a node that is neither resolved nor valid
\* failed with the not-resolved error
C11_Witness ==
    /\ def.kind[1] = "leaf"
    /\ HappenedWith("get", 1, "notResolved")
    /\ ~node.isResolved /\ ~node.isValid
    /\ resolvers[1].resolutionError = DependencyNotResolvedResolutionError
    /\ callOutcome = "returned"

\* C12: once a path is in a resolver's own dependency map as 'schema', no
\* step (process, ctx.get, resolve, resetResolutionState) removes the
\* entry or changes it to 'resolution'.
C12_SchemaEntriesPersist ==
    [][\A r \in Resolvers : \A p \in DepPaths :
         resolvers[r].dependsOnPathsObj[p] = "schema" =>
            resolvers'[r].dependsOnPathsObj[p] = "schema"]_vars

\* the case of C12: after process, a second attempt read the path with
\* ctx.get and the entry is still 'schema'
C12_Witness ==
    /\ attempts = 2
    /\ HappenedWith("get", 1, "ok")
    /\ callOutcome = "returned"
    /\ resolvers[1].dependsOnPathsObj[FullPath(ExistingPath)] = "schema"

RECURSIVE ActiveChainFailed(_)

\* a resolver down the chain of active branches below r holds a
\* resolutionError
ActiveChainFailed(r) ==
    \E b \in ActiveBranches(r) :
        resolvers[b].resolutionError # NoError \/ ActiveChainFailed(b)

\* C13: after a resolve call on a branch-set returned with a branch
\* chosen, if a resolver down the chain of active branches ended with a
\* resolutionError, the branch-set has isResolved true and no
\* resolutionError of its own, and reports isFullyResolved false.
C13_FullResolutionGating ==
    \A r \in BranchSets :
        (Ended(r) /\ ActiveChainFailed(r)) =>
            /\ resolvers[r].isResolved
            /\ resolvers[r].resolutionError = NoError
            /\ ~IsFullyResolved(r)

\* the case of C13: the failure is two levels down the active chain
C13_Witness ==
    /\ callOutcome = "returned"
    /\ ActiveBranches(1) = {4}
    /\ \E b \in ActiveBranches(4) : resolvers[b].resolutionError # NoError
    /\ resolvers[4].resolutionError = NoError
    /\ resolvers[1].isResolved
    /\ ~IsFullyResolved(1)

RECURSIVE Descendants(_)

\* the resolvers of the subtree below r (each names its branch too)
Descendants(r) ==
    Range(BranchList(r)) \cup UNION { Descendants(b) : b \in Range(BranchList(r)) }

\* C14: resetResolutionState, called on a resolver in any state, leaves
\* its resolutionError and that of every descendant undefined, every
\* branch of its subtree inactive, no 'resolution' entry in its
\* dependency map or in a descendant's, and every 'schema' entry as it
\* was.
C14_ResetSemantics ==
    \A r \in { x \in Resolvers : Exists(x) } :
        LET after == ResetResolutionState(resolvers, branches, r)
        IN /\ after.resolvers[r].resolutionError = NoError
           /\ \A d \in Descendants(r) :
                /\ after.resolvers[d].resolutionError = NoError
                /\ ~after.branches[d].isActive
           /\ \A d \in {r} \cup Descendants(r) : \A p \in DepPaths :
                after.resolvers[d].dependsOnPathsObj[p] =
                    IF resolvers[d].dependsOnPathsObj[p] = "schema" THEN "schema" ELSE "none"

\* the case of C14: a reset is called after an attempt that left a
\* resolutionError, active branches and a 'resolution' entry in the
\* subtree, next to 'schema' entries
C14_Witness ==
    /\ callOutcome = "returned"
    /\ ActiveBranches(1) = {4}
    /\ ActiveBranches(4) # {}
    /\ \E d \in Descendants(1) :
         /\ resolvers[d].resolutionError # NoError
         /\ resolvers[d].dependsOnPathsObj[FullPath(ExistingPath)] = "resolution"
    /\ resolvers[1].dependsOnPathsObj[FullPath(ExistingPath)] = "schema"
    /\ ENABLED CallReset

\* C15 (as stated): resetResolutionState, called on a resolver in any
\* state, leaves isResolved false, resolvedValue undefined,
\* resolutionError undefined and isUsingCache false; and so, once an
\* attempt of a resolver has returned, its isUsingCache is true only if
\* that attempt ended on a cache hit.
C15_AttemptStateCleared ==
    /\ \A r \in { x \in Resolvers : Exists(x) } :
         LET after == ResetResolutionState(resolvers, branches, r).resolvers[r]
         IN /\ ~after.isResolved
            /\ after.resolvedValue = Undefined
            /\ after.resolutionError = NoError
            /\ ~after.isUsingCache
    /\ \A r \in Resolvers :
         (Ended(r) /\ resolvers[r].isUsingCache) => HappenedWith("cacheRead", r, "hit")

\* C16: every setCacheItem call is issued by a resolve call that computed
\* a cache key (its definition has a cacheKey, and the key is not empty)
\* and is given a value that is neither undefined nor null.
C16_NeverStoresNullish ==
    [][\A i \in (Len(trace) + 1)..Len(trace') :
         trace'[i].ev = "cacheWrite" =>
            /\ trace'[i].out \notin {Undefined, Null}
            /\ trace'[i].out = resolvers'[trace'[i].r].resolvedValue
            /\ trace'[i].r = Top.r
            /\ def.cacheKey[Top.r] # "none"
            /\ Truthy(Top.cacheKey)
      ]_vars

\* the case of C16: a resolver with a cache key missed the cache, got
\* null from its resolve function and returned without a cache write
C16_Witness ==
    /\ def.cacheKey[1] = "static"
    /\ HappenedWith("cacheRead", 1, "miss")
    /\ HappenedWith("evaluate", 1, "returned")
    /\ resolvers[1].resolvedValue = Null
    /\ ~Happened("cacheWrite", 1)
    /\ callOutcome = "returned"

\* C17 (as stated): a resolve attempt issues a cache write only if it
\* ends with the resolver fully resolved: no resolutionError on the
\* resolver itself nor, for a branch-set, down the chain of its chosen
\* branches.
C17_WritesOnlyOnSuccess ==
    \A r \in Resolvers :
        Happened("cacheWrite", r) =>
            /\ resolvers[r].isResolved
            /\ resolvers[r].resolutionError = NoError
            /\ ~ActiveChainFailed(r)

\* the positions in trace of the reads of the node X: by ctx.get and by a
\* picked value resolver
Reads == { i \in 1..Len(trace) : trace[i].ev \in {"get", "pick"} }

\* C18 (as stated): a read of a dependency that has not completed its
\* resolve (the node is not resolved) never hands a value to the
\* dependent: the function that read it fails with a retryable error.
C18_UnresolvedReadsFailRetryably ==
    \A i \in Reads :
        trace[i].out = "notResolved" =>
            /\ trace[i + 1].out \in {"threw", "throw"}
            /\ trace[i + 1].err.retryable

\* ---------------------------------------------------------------- fixpoint scheduler

\* passes a scheduler may start
MaxPasses == 5

\* Each node of the graph has a leaf resolver with static icon and label
\* and no cache key: resolver n is that of node n.
GraphDefinition ==
    [kind |-> [r \in Resolvers |-> IF r \in GraphNodes THEN "leaf" ELSE "absent"],
     isDefault |-> DefaultFlags({}),
     identity |-> IdentityOf("static"),
     cacheKey |-> [r \in Resolvers |-> "none"],
     switchBy |-> NoSwitchBy]

\* every way three nodes can each read one other node, or none
Graphs == { d \in [GraphNodes -> GraphNodes \cup {NoDependency}] : \A n \in GraphNodes : d[n] # n }

FixpointInit ==
    /\ def = GraphDefinition
    /\ resolvers = [r \in Resolvers |-> NewResolver(r)]
    /\ branches = [b \in 2..6 |-> NewBranch]
    /\ node = UnresolvedNode
    /\ stack = <<>>
    /\ trace = <<>>
    /\ callOutcome = "none"
    /\ escaped = NoError
    /\ attempts = 0
    /\ graph \in { NewGraph(d) : d \in Graphs }
    /\ schemaErrors = <<>>
    /\ call = NoCall

\* resolve() of the resolver of node n, a leaf without cache key (lines
\* 205-211 and 273-292), as one step: its resolve function returns a
\* constant when the node reads no other node, and else what ctx.get
\* gives for the node it reads
ResolveNode(n) ==
    LET reset == ResetResolutionState(resolvers, branches, n).resolvers
        st == [rec |-> reset[n], ctxDependsOn |-> {}]
        res == IF graph.deps[n] = NoDependency
               THEN Returned("A", st, <<>>)
               ELSE GetNode(graph.nodes[graph.deps[n]], n, st, ExistingPath)
    IN IF res.threw
       THEN [reset EXCEPT ![n] = CatchEvalError(res.st.rec, res.err)]
       ELSE [reset EXCEPT ![n] = [res.st.rec EXCEPT !.resolvedValue = res.value,
                                                     !.isResolved = TRUE]]

\* the node after an attempt of its resolver that left the record rec: it
\* is resolved, to the resolver's value, when the resolver ended without
\* error
NodeAfterAttempt(rec) ==
    IF rec.isResolved /\ rec.resolutionError = NoError
    THEN [isResolved |-> TRUE, isValid |-> TRUE, resolvedValue |-> rec.resolvedValue]
    ELSE UnresolvedNode

\* the nodes a pass attempts: those not fully resolved that were never
\* attempted or failed with a retryable error
NotSettled ==
    { n \in GraphNodes :
        /\ ~IsFullyResolved(n)
        /\ n \notin graph.attempted \/ SelfOrChildResolutionError(n).retryable }

\* the scheduler starts a pass, unless the pass before resolved no node
StartPass ==
    /\ ~graph.done
    /\ graph.queue = {}
    /\ NotSettled # {}
    /\ graph.pass = 0 \/ graph.progress
    /\ graph.pass < MaxPasses
    /\ graph' = [graph EXCEPT !.pass = @ + 1, !.queue = NotSettled, !.progress = FALSE]
    /\ UNCHANGED <<def, schemaErrors, call, resolvers, branches, node, stack, trace, callOutcome, escaped, attempts>>

\* the scheduler attempts a node of the pass, in any order
AttemptNode ==
    /\ ~graph.done
    /\ \E n \in graph.queue :
         LET rs == ResolveNode(n)
             after == NodeAfterAttempt(rs[n])
         IN /\ resolvers' = rs
            /\ graph' = [graph EXCEPT !.queue = @ \ {n},
                                      !.attempted = @ \cup {n},
                                      !.nodes[n] = after,
                                      !.progress = @ \/ after.isResolved]
    /\ UNCHANGED <<def, schemaErrors, call, branches, node, stack, trace, callOutcome, escaped, attempts>>

\* the scheduler stops: every node is settled, or a full pass resolved no
\* node; it reports the nodes that are not fully resolved
Finish ==
    /\ ~graph.done
    /\ graph.queue = {}
    /\ NotSettled = {} \/ (graph.pass > 0 /\ ~graph.progress)
    /\ graph' = [graph EXCEPT !.done = TRUE,
                              !.reported = { n \in GraphNodes : ~IsFullyResolved(n) }]
    /\ UNCHANGED <<def, schemaErrors, call, resolvers, branches, node, stack, trace, callOutcome, escaped, attempts>>

FixpointNext ==
    \/ StartPass
    \/ AttemptNode
    \/ Finish

\* the scheduler keeps going while it has something to do
FixpointSpec == FixpointInit /\ [][FixpointNext]_vars /\ WF_vars(FixpointNext)

\* node 2 reads node 1 and node 3 reads node 2
IsChain == graph.deps = [n \in GraphNodes |-> IF n = 1 THEN NoDependency ELSE n - 1]

\* nodes 1 and 2 read each other
IsCycle == graph.deps[1] = 2 /\ graph.deps[2] = 1

AllFullyResolved == \A n \in GraphNodes : IsFullyResolved(n)

\* C19: on the chain, whatever the order of the attempts within a pass,
\* the scheduler never starts a fourth pass and reaches a state where the
\* three nodes are fully resolved.
C19_ChainConverges ==
    /\ [](IsChain => graph.pass <= 3)
    /\ [](IsChain /\ graph.pass = 3 /\ graph.queue = {} => AllFullyResolved)
    /\ (IsChain ~> (AllFullyResolved /\ graph.pass <= 3))

\* the case of C19: the chain needed its third pass
C19_Witness ==
    /\ IsChain
    /\ graph.pass = 3
    /\ graph.done
    /\ AllFullyResolved
    /\ graph.reported = {}

\* C20: on every graph the scheduler stops, after the first full pass that
\* resolved no node or when no node is left to attempt, and then reports
\* exactly the nodes that are not fully resolved; two nodes that read each
\* other are never resolved, and are reported.
C20_FixpointTerminates ==
    /\ <>graph.done
    /\ [](graph.done =>
            /\ graph.reported = { n \in GraphNodes : ~IsFullyResolved(n) }
            /\ NotSettled = {} \/ ~graph.progress)
    /\ [](~graph.done /\ graph.queue = {} /\ graph.pass > 0 => graph.progress \/ ENABLED Finish)
    /\ [](IsCycle =>
            /\ ~graph.nodes[1].isResolved /\ ~graph.nodes[2].isResolved
            /\ ~resolvers[1].isResolved /\ ~resolvers[2].isResolved
            /\ graph.done => {1, 2} \subseteq graph.reported)

\* the case of C20: the scheduler stopped on a cycle after a pass that
\* resolved the third node and a pass that resolved none
C20_Witness ==
    /\ IsCycle
    /\ graph.done
    /\ graph.pass = 2
    /\ graph.reported = {1, 2}
    /\ resolvers[1].resolutionError = DependencyNotResolvedResolutionError

\* ---------------------------------------------------------------- getDependencyMap

RECURSIVE GetDependencyMap(_, _, _, _)
RECURSIVE MergeBranchMaps(_, _, _, _, _, _)

\* a loop that takes the map of every branch in the 'active' mode too
MergeBranchMapsIgnoringActivity(rs, bs, list, i, depMap, mode) ==
    IF i > Len(list) THEN [map |-> depMap, resolvers |-> rs]
    ELSE LET branchMap == GetDependencyMap(rs, bs, list[i], mode)
         IN MergeBranchMaps(branchMap.resolvers, bs, list, i + 1,
                            [p \in DepPaths |-> IF branchMap.map[p] # "none"
                                                THEN branchMap.map[p] ELSE depMap[p]],
                            mode)

\* lines 177-184: the loop over the branches from index i on; depMap is
\* the map being built, which the entries of a branch's map overwrite
MergeBranchMaps(rs, bs, list, i, depMap, mode) ==
    IF i > Len(list) THEN [map |-> depMap, resolvers |-> rs]
    ELSE LET b == list[i]
         IN IF mode = "all" \/ (bs[b].isActive /\ mode = "active")
            THEN LET branchMap == GetDependencyMap(rs, bs, b, mode)
                 IN MergeBranchMaps(branchMap.resolvers, bs, list, i + 1,
                                    [p \in DepPaths |-> IF branchMap.map[p] # "none"
                                                        THEN branchMap.map[p] ELSE depMap[p]],
                                    mode)
            ELSE MergeBranchMaps(rs, bs, list, i + 1, depMap, mode)

\* getDependencyMap(mode) of resolver r on the state (rs, bs): the map
\* returned and the resolvers as the call leaves them.  depMap is a copy
\* ({ ...this.dependsOnPathsObj }), so the writes of the loop reach no
\* resolver.
GetDependencyMap(rs, bs, r, mode) ==
    LET depMap == rs[r].dependsOnPathsObj
    IN IF mode = "self" \/ BranchList(r) = <<>>
       THEN [map |-> depMap, resolvers |-> rs]
       ELSE MergeBranchMaps(rs, bs, BranchList(r), 1, depMap, mode)

Modes == {"self", "active", "all"}

\* the dependency maps a resolver can hold: empty, what a ctx.get left,
\* what a process function declared, or both
DependencyMaps ==
    { [p \in DepPaths |-> "none"],
      [p \in DepPaths |-> IF p = FullPath(ExistingPath) THEN "resolution" ELSE "none"],
      [p \in DepPaths |-> IF p = FullPath(ExistingPath) THEN "schema" ELSE "none"],
      [p \in DepPaths |-> IF p = FullPath(OtherPath) THEN "schema" ELSE "resolution"] }

\* the branch activity resolve can leave in the nested tree: at most one
\* active branch in a set, none below an inactive branch
Activities ==
    { bs \in [2..6 -> [isActive : BOOLEAN]] :
        /\ Cardinality({ b \in 2..4 : bs[b].isActive }) <= 1
        /\ Cardinality({ b \in 5..6 : bs[b].isActive }) <= 1
        /\ (bs[5].isActive \/ bs[6].isActive) => bs[4].isActive }

NestedDefinition ==
    [kind |-> KindsOfNestedTree, isDefault |-> DefaultFlags({4}),
     identity |-> IdentityOf("static"), cacheKey |-> CacheKeyOf("static"),
     switchBy |-> NoSwitchBy]

\* the resolvers of the nested tree between two attempts, with any
\* dependency maps: the root set and its second and third branch hold any
\* map, the others hold or lack the entry a ctx.get leaves
DependencyMapInit ==
    /\ def = NestedDefinition
    /\ branches \in Activities
    /\ \E own \in [Resolvers -> DependencyMaps] :
         /\ \A r \in {2, 5, 6} : own[r][FullPath(OtherPath)] = "none" /\ own[r][FullPath(ExistingPath)] # "schema"
         /\ resolvers = [r \in Resolvers |-> [NewResolver(r) EXCEPT !.dependsOnPathsObj = own[r]]]
    /\ node = UnresolvedNode
    /\ stack = <<>>
    /\ trace = <<>>
    /\ callOutcome = "none"
    /\ escaped = NoError
    /\ attempts = 0
    /\ graph = NoGraph
    /\ schemaErrors = <<>>
    /\ call = [fn |-> "pending"]

\* a caller asks a resolver of the tree for its dependency map
CallGetDependencyMap ==
    /\ call.fn = "pending"
    /\ \E r \in {1, 2, 4}, mode \in Modes :
         LET res == GetDependencyMap(resolvers, branches, r, mode)
         IN /\ call' = [fn |-> "getDependencyMap", r |-> r, mode |-> mode,
                        map |-> res.map, before |-> resolvers]
            /\ resolvers' = res.resolvers
    /\ UNCHANGED <<def, graph, schemaErrors, branches, node, stack, trace, callOutcome,
                   escaped, attempts>>

DependencyMapSpec == DependencyMapInit /\ [][CallGetDependencyMap]_vars

RECURSIVE ActiveChainOf(_)

\* r and the resolvers reached from it through active branches only
ActiveChainOf(r) == {r} \cup UNION { ActiveChainOf(b) : b \in ActiveBranches(r) }

\* the resolvers whose maps a mode takes
Contributors(r, mode) ==
    CASE mode = "self" -> {r}
      [] mode = "active" -> ActiveChainOf(r)
      [] OTHER -> {r} \cup Descendants(r)

\* C21: the map getDependencyMap returns holds a path exactly when the
\* own map of a contributor of the mode holds it, tagged as one of them
\* tags it: the resolver alone for 'self', the chain of active branches
\* for 'active' (so the 'self' map when no branch is active), every
\* resolver of the subtree for 'all'; and the call leaves the own map of
\* every resolver as it was.
C21_DependencyMapModes ==
    call.fn = "getDependencyMap" =>
        LET own(x) == call.before[x].dependsOnPathsObj
            from == Contributors(call.r, call.mode)
        IN /\ \A p \in DepPaths :
                /\ call.map[p] = "none" <=> \A x \in from : own(x)[p] = "none"
                /\ call.map[p] # "none" => \E x \in from : own(x)[p] = call.map[p]
           /\ call.mode = "self" => call.map = own(call.r)
           /\ (call.mode = "active" /\ ActiveBranches(call.r) = {}) => call.map = own(call.r)
           /\ resolvers = call.before

\* the case of C21: 'active' was asked of a set whose active branch holds
\* an entry the set lacks, while an inactive branch holds another
C21_Witness ==
    /\ call.fn = "getDependencyMap"
    /\ call.r = 1
    /\ call.mode = "active"
    /\ ActiveBranches(1) = {4}
    /\ ActiveBranches(4) = {5}
    /\ call.before[1].dependsOnPathsObj[FullPath(ExistingPath)] = "none"
    /\ call.before[5].dependsOnPathsObj[FullPath(ExistingPath)] = "resolution"
    /\ call.before[3].dependsOnPathsObj[FullPath(OtherPath)] = "schema"
    /\ call.map[FullPath(ExistingPath)] = "resolution"
    /\ call.map[FullPath(OtherPath)] = "none"

\* ---------------------------------------------------------------- switchBy

\* calls of process that may add a schema error
MaxSchemaErrors == 2

\* new SchemaError(`switchBy referencing invalid path - ${switchByKey}`)
SchemaError(key) == [cls |-> "SchemaError", path |-> key]

\* itemKey === '_default' || itemKey === '_'
IsDefaultKey(itemKey) == itemKey \in {"_default", "_"}

\* lines 558-580: the definition switchBy(key, cases) builds for three
\* cases, given as <<key, static value>> pairs in declared order; the
\* resolver of case i is resolver i + 1
SwitchByDefinition(key, cases) ==
    [kind |-> KindsOfFlatTree,
     isDefault |-> [b \in 2..6 |-> b \in 2..4 /\ IsDefaultKey(cases[b - 1][1])],
     identity |-> IdentityOf("static"),
     cacheKey |-> [r \in Resolvers |-> "none"],
     switchBy |-> [key |-> key,
                   caseKey |-> [b \in 2..4 |-> cases[b - 1][1]],
                   caseValue |-> [b \in 2..4 |-> cases[b - 1][2]]]]

\* the cases of the trees examined: a default last, first, in the middle
\* under its short name, and none
CaseLists ==
    { << <<"prod", "A">>, <<"dev", "B">>, <<"_default", "C">> >>,
      << <<"_default", "C">>, <<"prod", "A">>, <<"dev", "B">> >>,
      << <<"prod", "A">>, <<"_", "C">>, <<"dev", "B">> >>,
      << <<"prod", "A">>, <<"dev", "B">>, <<"test", "D">> >> }

SwitchByDefinitions ==
    { SwitchByDefinition(key, cases) : key \in {ExistingPath, MissingPath}, cases \in CaseLists }

\* the states of the discriminant node: not resolved, resolved to an
\* invalid value, resolved and valid with a value that is a case key, a
\* default key or neither
SwitchNodeStates ==
    { UnresolvedNode, [isResolved |-> TRUE, isValid |-> FALSE, resolvedValue |-> "prod"] }
    \cup { [isResolved |-> TRUE, isValid |-> TRUE, resolvedValue |-> v] :
             v \in {"prod", "dev", "staging", "_default"} }

SwitchByInit ==
    /\ def \in SwitchByDefinitions
    /\ resolvers = [r \in Resolvers |-> NewResolver(r)]
    /\ branches = [b \in 2..6 |-> NewBranch]
    /\ node \in SwitchNodeStates
    /\ stack = <<>>
    /\ trace = <<>>
    /\ callOutcome = "none"
    /\ escaped = NoError
    /\ attempts = 0
    /\ graph = NoGraph
    /\ schemaErrors = <<>>
    /\ call = NoCall

\* a process function that throws when the path names no node
SwitchProcessThrowing(rec, errs, key) ==
    IF key # ExistingPath
    THEN [rec |-> rec, schemaErrors |-> errs, threw |-> TRUE]
    ELSE [rec |-> [rec EXCEPT !.dependsOnPathsObj[FullPath(key)] = "schema"],
          schemaErrors |-> errs, threw |-> FALSE]

\* lines 562-570: the process function of a switchBy resolver with
\* record rec, owned by a node whose schemaErrors are errs
SwitchProcess(rec, errs, key) ==
    IF key # ExistingPath
    THEN [rec |-> rec, schemaErrors |-> Append(errs, SchemaError(key)), threw |-> FALSE]
    ELSE [rec |-> [rec EXCEPT !.dependsOnPathsObj[FullPath(key)] = "schema"],
          schemaErrors |-> errs, threw |-> FALSE]

\* process(item) of the switchBy resolver (lines 189-203): its own
\* process function; the resolvers of its cases, built from static
\* values, have none
ProcessSwitchBy ==
    /\ Idle
    /\ attempts = 0
    /\ Len(schemaErrors) < MaxSchemaErrors
    /\ LET res == SwitchProcess(resolvers[1], schemaErrors, def.switchBy.key)
       IN /\ resolvers' = [resolvers EXCEPT ![1] = res.rec]
          /\ schemaErrors' = res.schemaErrors
          /\ call' = [fn |-> "process", threw |-> res.threw]
    /\ UNCHANGED <<def, graph, branches, node, stack, trace, callOutcome, escaped, attempts>>

\* the external graph resolves, invalidates or re-resolves the discriminant
SetDiscriminant ==
    /\ Idle
    /\ attempts < MaxAttempts
    /\ node' \in SwitchNodeStates \ {node}
    /\ UNCHANGED <<def, graph, schemaErrors, call, resolvers, branches, stack, trace,
                   callOutcome, escaped, attempts>>

SwitchByNext ==
    \/ ProcessSwitchBy
    \/ CallResolve
    \/ Begin
    \/ SelectBranch
    \/ AfterChild
    \/ EvalLeaf
    \/ SetDiscriminant

SwitchBySpec == SwitchByInit /\ [][SwitchByNext]_vars

\* the non-default cases whose key is the value v, and the default cases
CasesFor(v) == { b \in 2..4 : ~IsDefaultKey(def.switchBy.caseKey[b]) /\ def.switchBy.caseKey[b] = v }

DefaultCases == { b \in 2..4 : IsDefaultKey(def.switchBy.caseKey[b]) }

\* C22: a resolve call on a switchBy whose discriminant exists and is
\* resolved and valid with value v ends, when a non-default case has the
\* key v, by returning with the value of that case, and when none has
\* and there is a default case, by returning with the value of the
\* default case; the resolver is then fully resolved and the case is the
\* one active branch.
C22_SwitchByEndToEnd ==
    [][(/\ callOutcome = "pending"
        /\ callOutcome' # "pending"
        /\ def.switchBy.key = ExistingPath
        /\ node.isResolved
        /\ node.isValid)
       => LET chosen == IF CasesFor(node.resolvedValue) # {}
                        THEN CasesFor(node.resolvedValue) ELSE DefaultCases
          IN chosen # {} =>
               /\ callOutcome' = "returned"
               /\ \E b \in chosen :
                    /\ resolvers'[1].resolvedValue = def.switchBy.caseValue[b]
                    /\ \A x \in 2..4 : branches'[x].isActive <=> x = b
               /\ resolvers'[1].isResolved
               /\ \A x \in 1..4 : resolvers'[x].resolutionError = NoError]_vars

\* the case of C22: after an attempt that gave 'A' for "prod", the
\* discriminant became "staging" and the next attempt gave the value of
\* the default case
C22_Witness ==
    /\ callOutcome = "returned"
    /\ attempts = 2
    /\ node.isValid
    /\ node.resolvedValue = "staging"
    /\ def.switchBy.caseKey[4] = "_default"
    /\ resolvers[1].resolvedValue = "C"
    /\ resolvers[2].resolvedValue = "A"
    /\ ActiveBranches(1) = {4}
    /\ IsFullyResolved(1)

\* C23: a call of process on a switchBy resolver does not throw; when
\* the discriminant path names a node of the entity it tags that node's
\* full path 'schema' in the resolver's own map and adds no schema
\* error; when it names none it appends one SchemaError to the owning
\* node's schemaErrors and leaves the map as it was; no other resolver
\* changes.
C23_SwitchByProcess ==
    [][ProcessSwitchBy =>
        /\ ~call'.threw
        /\ \A r \in 2..6 : resolvers'[r] = resolvers[r]
        /\ IF def.switchBy.key = ExistingPath
           THEN /\ resolvers'[1].dependsOnPathsObj[FullPath(ExistingPath)] = "schema"
                /\ resolvers'[1].dependsOnPathsObj[FullPath(OtherPath)] = "none"
                /\ schemaErrors' = schemaErrors
           ELSE /\ schemaErrors' = Append(schemaErrors, SchemaError(def.switchBy.key))
                /\ resolvers'[1] = resolvers[1]]_vars

\* the case of C23: process ran on a switchBy whose path names no node
C23_Witness ==
    /\ call = [fn |-> "process", threw |-> FALSE]
    /\ def.switchBy.key = MissingPath
    /\ schemaErrors = <<SchemaError(MissingPath)>>
    /\ \A p \in DepPaths : resolvers[1].dependsOnPathsObj[p] = "none"

\* ---------------------------------------------------------------- picked value

\* C24: the step in which the resolve function of a picked value runs
\* leaves, when the source node is not resolved, isResolved true,
\* resolutionError undefined, isFullyResolved true and the Error object
\* as resolvedValue, with or without a valueTransform; when the source is
\* resolved it leaves the source's resolvedValue, passed through the
\* valueTransform when one was given.
C24_PickedValue ==
    [][(/\ Len(trace') > Len(trace)
        /\ trace'[Len(trace) + 1].ev = "pick")
       => \E r \in Resolvers :
          LET out == trace'[Len(trace) + 1].out
          IN /\ r = Top.r
             /\ trace'[Len(trace) + 1].r = r
             /\ resolvers'[r].isResolved
             /\ resolvers'[r].resolutionError = NoError
             /\ IsFullyResolved(r)'
             /\ out = "notResolved" <=> ~node.isResolved
             /\ resolvers'[r].resolvedValue =
                  CASE out = "notResolved" -> ErrorValue
                    [] out = "transformed" -> Transform(node.resolvedValue)
                    [] OTHER -> node.resolvedValue]_vars

\* the case of C24: a picked value with a valueTransform ended an attempt
\* on an unresolved source fully resolved, with the Error object as value
C24_Witness ==
    /\ callOutcome = "returned"
    /\ HappenedWith("pick", 1, "notResolved")
    /\ ~node.isResolved
    /\ resolvers[1].resolvedValue = ErrorValue
    /\ IsFullyResolved(1)
    /\ resolvers[1].isResolved
    /\ resolvers[1].resolutionError = NoError

\* ---------------------------------------------------------------- getDeclaredDependencyValues

\* What graphRoot.getItemByPath gives for a full path: no node, or a
\* node that is not resolved, resolved but not fully resolved, resolved
\* to an invalid value, or resolved and valid.
NoNode ==
    [exists |-> FALSE, isResolved |-> FALSE, isFullyResolved |-> FALSE,
     isValid |-> FALSE, resolvedValue |-> Undefined]

GraphRootNodes ==
    { NoNode }
    \cup { [exists |-> TRUE, isResolved |-> s[1], isFullyResolved |-> s[2], isValid |-> s[3],
            resolvedValue |-> IF s[1] THEN "prod" ELSE Undefined] :
             s \in { <<FALSE, FALSE, FALSE>>, <<TRUE, FALSE, FALSE>>,
                     <<TRUE, TRUE, FALSE>>, <<TRUE, TRUE, TRUE>> } }

\* the keys of a dependency map in insertion order, which is the order
\* _.mapValues visits them in
KeyOrders ==
    { <<>>, <<FullPath(ExistingPath)>>, <<FullPath(OtherPath)>>,
      <<FullPath(ExistingPath), FullPath(OtherPath)>>,
      <<FullPath(OtherPath), FullPath(ExistingPath)>> }

RECURSIVE DeclaredValuesFrom(_, _, _, _)

\* lines 450-463: the callback of _.mapValues for the keys from index i
\* on; values holds the values gathered so far
DeclaredValuesFrom(order, nodes, i, values) ==
    IF i > Len(order) THEN [threw |-> FALSE, err |-> NoError, values |-> values]
    ELSE LET depNode == nodes[order[i]]
         IN IF ~depNode.exists
            THEN [threw |-> TRUE, err |-> ResolutionError("declared", 0, "none"),
                  values |-> <<>>]
            ELSE IF ~depNode.isFullyResolved
            THEN [threw |-> TRUE,
                  err |-> [DependencyNotResolvedResolutionError EXCEPT !.origin = "declared"],
                  values |-> <<>>]
            ELSE IF ~depNode.isValid
            THEN [threw |-> TRUE, err |-> ResolutionError("declaredInvalid", 0, "none"),
                  values |-> <<>>]
            ELSE DeclaredValuesFrom(order, nodes, i + 1,
                                    Append(values, <<order[i], depNode.resolvedValue>>))

\* getDeclaredDependencyValues() of a context bound to a resolver whose
\* dependency map has the keys `order`: it throws, or returns the
\* <<path, value>> pairs of the mapping
GetDeclaredDependencyValues(order, nodes) == DeclaredValuesFrom(order, nodes, 1, <<>>)

\* a resolver with any dependency map, the nodes its paths name in any
\* state
DeclaredValuesInit ==
    /\ def \in { d \in Definitions : d.kind = KindsOfLeafTree /\ d.identity[1] = "static" }
    /\ \E order \in KeyOrders, types \in [DepPaths -> {"schema", "resolution"}],
          nodes \in [DepPaths -> GraphRootNodes] :
         /\ resolvers = [r \in Resolvers |->
                           [NewResolver(r) EXCEPT !.dependsOnPathsObj =
                               [p \in DepPaths |-> IF r = 1 /\ p \in Range(order)
                                                   THEN types[p] ELSE "none"]]]
         /\ call = [fn |-> "pending", order |-> order, nodes |-> nodes]
    /\ branches = [b \in 2..6 |-> NewBranch]
    /\ node = UnresolvedNode
    /\ stack = <<>>
    /\ trace = <<>>
    /\ callOutcome = "none"
    /\ escaped = NoError
    /\ attempts = 0
    /\ graph = NoGraph
    /\ schemaErrors = <<>>

\* a resolve function asks its context for the values of the declared
\* dependencies
CallGetDeclaredDependencyValues ==
    /\ call.fn = "pending"
    /\ LET res == GetDeclaredDependencyValues(call.order, call.nodes)
       IN call' = [fn |-> "getDeclaredDependencyValues", order |-> call.order,
                   nodes |-> call.nodes, threw |-> res.threw, err |-> res.err,
                   values |-> res.values]
    /\ UNCHANGED <<def, graph, schemaErrors, resolvers, branches, node, stack, trace,
                   callOutcome, escaped, attempts>>

DeclaredValuesSpec == DeclaredValuesInit /\ [][CallGetDeclaredDependencyValues]_vars

\* C25 (as stated): when every path of the map names a node,
\* getDeclaredDependencyValues fails with the retryable not-resolved error
\* exactly when some node has isResolved = false, fails with the
\* DependencyInvalidResolutionError of ctx.get when all are resolved and
\* one is invalid, and otherwise returns the resolvedValue of each path
\* of the map.
C25_DeclaredValuesAsGet ==
    (call.fn = "getDeclaredDependencyValues"
        /\ \A p \in Range(call.order) : call.nodes[p].exists)
    => LET deps == Range(call.order)
           someUnresolved == \E p \in deps : ~call.nodes[p].isResolved
           someInvalid == \E p \in deps : ~call.nodes[p].isValid
       IN /\ (call.threw /\ call.err.cls = "DependencyNotResolvedResolutionError" /\ call.err.retryable)
                <=> someUnresolved
          /\ (~someUnresolved /\ someInvalid) =>
                (call.threw /\ call.err.cls = "DependencyInvalidResolutionError" /\ ~call.err.retryable)
          /\ (~someUnresolved /\ ~someInvalid) =>
                /\ ~call.threw
                /\ { v[1] : v \in Range(call.values) } = deps
                /\ \A v \in Range(call.values) : v[2] = call.nodes[v[1]].resolvedValue

\* ---------------------------------------------------------------- cache adapters

\* The same tree of deterministic functions is resolved against a cache
\* adapter that persists writes (resolvers, branches, call.cache) and
\* against one that always misses and discards writes (call.noop).  The
\* functions are fixed in call.fns: the resolve function of each leaf and
\* the condition of each branch that is not a default.

\* a tree whose last branch is the default
FlatDefinition ==
    [kind |-> KindsOfFlatTree, isDefault |-> DefaultFlags({4}),
     identity |-> IdentityOf("static"), cacheKey |-> CacheKeyOf("static"),
     switchBy |-> NoSwitchBy]

LeafDefinition ==
    [kind |-> KindsOfLeafTree, isDefault |-> DefaultFlags({}),
     identity |-> IdentityOf("static"), cacheKey |-> CacheKeyOf("static"),
     switchBy |-> NoSwitchBy]

\* deterministic resolve functions: a constant, the value of the node X,
\* the picked value of the node X
DeterministicEvalBehaviours ==
    { Behaviour("none", "return", "A", NoError),
      Behaviour(ExistingPath, "returnGotten", Undefined, NoError),
      Behaviour("none", "picked", Undefined, NoError) }

\* deterministic conditions: a comparison of the node X with "prod", a
\* constant, a condition that always throws
DeterministicConditionBehaviours ==
    { Behaviour(ExistingPath, "equals", "prod", NoError),
      Behaviour("none", "return", FALSE, NoError),
      Behaviour("none", "throw", FALSE, PlainError("user")) }

\* the functions of a tree: those of the node's resolver may be any,
\* the resolvers of the branches return a constant or the value of X
FunctionsOf(d) ==
    { [eval |-> e, cond |-> c] :
        e \in { f \in [{ r \in Resolvers : d.kind[r] = "leaf" } -> DeterministicEvalBehaviours] :
                  \A r \in DOMAIN f : r # 1 => f[r].kind # "picked" },
        c \in [{ b \in 2..3 : d.kind[1] = "branches" } -> DeterministicConditionBehaviours] }

\* the states of the node X: not resolved, resolved to an invalid value,
\* resolved and valid with one of two values
UpstreamStates ==
    { UnresolvedNode, [isResolved |-> TRUE, isValid |-> FALSE, resolvedValue |-> "prod"] }
    \cup { [isResolved |-> TRUE, isValid |-> TRUE, resolvedValue |-> v] : v \in {"prod", "dev"} }

CacheKeys == {"key", "fnkey"}

EmptyCache == [k \in CacheKeys |-> Undefined]

CacheInit ==
    /\ def \in {LeafDefinition, FlatDefinition}
    /\ resolvers = [r \in Resolvers |-> NewResolver(r)]
    /\ branches = [b \in 2..6 |-> NewBranch]
    /\ node \in UpstreamStates
    /\ stack = <<>>
    /\ trace = <<>>
    /\ callOutcome = "none"
    /\ escaped = NoError
    /\ attempts = 0
    /\ graph = NoGraph
    /\ schemaErrors = <<>>
    /\ \E fns \in FunctionsOf(def) :
         call = [fn |-> "resolve", fns |-> fns, cache |-> EmptyCache,
                 noop |-> [resolvers |-> resolvers, branches |-> branches],
                 changed |-> FALSE, restarted |-> FALSE]

RECURSIVE ResolveAll(_, _, _, _, _, _)

\* lines 294-298 against a cache: the write reaches the cache when the
\* context is the caller's and its adapter persists
SaveIn(rs, bs, cache, r, cacheKey, keeps) ==
    [resolvers |-> rs, branches |-> bs, threw |-> FALSE,
     cache |-> IF ShouldSetCacheItem(cacheKey, rs[r].resolvedValue) /\ keeps
               THEN [cache EXCEPT ![cacheKey] = rs[r].resolvedValue]
               ELSE cache]

\* lines 280-298 of a leaf resolver whose function gave res
ResolveLeaf(reset, res, cache, r, cacheKey, keeps) ==
    IF res.threw
    THEN [resolvers |-> [reset.resolvers EXCEPT ![r] = CatchEvalError(res.st.rec, res.err)],
          branches |-> reset.branches, cache |-> cache, threw |-> FALSE]
    ELSE SaveIn([reset.resolvers EXCEPT
                    ![r] = [res.st.rec EXCEPT !.resolvedValue = res.value,
                                              !.isResolved = TRUE]],
                reset.branches, cache, r, cacheKey, keeps)

\* lines 268-277 and 294-298: the matching branch's resolver ended as child
ResolveParent(child, r, matchingBranch, cacheKey, keeps) ==
    IF child.threw THEN child
    ELSE SaveIn([child.resolvers EXCEPT
                    ![r].resolvedValue = child.resolvers[matchingBranch].resolvedValue,
                    ![r].isResolved = TRUE],
                child.branches, child.cache, r, cacheKey, keeps)

\* lines 234-277 of a resolver with branches whose conditions gave found
ResolveBranches(reset, found, cache, r, cacheKey, top, persists) ==
    LET list == BranchList(r)
        rs1 == [reset.resolvers EXCEPT ![r] = found.st.rec]
        matchingBranch == IF found.matching # 0 THEN found.matching ELSE FindDefault(list, 1)
        bs1 == Activate(reset.branches, list, matchingBranch)
    IN IF FailedEvaluatingConditions(found.st.rec)
       THEN [resolvers |-> [rs1 EXCEPT ![r].isResolved = FALSE],
             branches |-> reset.branches, cache |-> cache, threw |-> FALSE]
       ELSE IF matchingBranch = 0
       THEN [resolvers |-> rs1, branches |-> bs1, cache |-> cache, threw |-> TRUE]
       ELSE ResolveParent(ResolveAll(rs1, bs1, cache, matchingBranch, FALSE, persists),
                          r, matchingBranch, cacheKey, top /\ persists)

\* lines 221-299 after the reset of line 213
ResolveFrom(reset, cache, r, top, persists) ==
    LET cacheKey == ComputeCacheKey(r, "ok")
        cachedValue == IF Truthy(cacheKey) /\ top THEN cache[cacheKey] ELSE Undefined
        st == [rec |-> reset.resolvers[r], ctxDependsOn |-> {}]
    IN IF cachedValue # Undefined
       THEN [resolvers |-> [reset.resolvers EXCEPT ![r] = UseCachedValue(@, cachedValue)],
             branches |-> reset.branches, cache |-> cache, threw |-> FALSE]
       ELSE IF def.kind[r] = "branches"
       THEN ResolveBranches(reset,
                            FindMatching(r, BranchList(r), 1, call.fns.cond, st, <<>>),
                            cache, r, cacheKey, top, persists)
       ELSE ResolveLeaf(reset, RunUserFn(call.fns.eval[r], r, st), cache, r, cacheKey,
                        top /\ persists)

\* resolve(ctx) of resolver r (lines 205-299) run to its end on the state
\* (rs, bs) with the functions of call.fns.  top: the context is the
\* caller's (the context built for a branch at line 266 never hits and
\* never writes); persists: the caller's adapter keeps what is written.
ResolveAll(rs, bs, cache, r, top, persists) ==
    ResolveFrom(ResetResolutionState(rs, bs, r), cache, r, top, persists)

\* one attempt on the node's resolver against each adapter
AttemptBoth ==
    /\ attempts < MaxAttempts
    /\ LET kept == ResolveAll(resolvers, branches, call.cache, 1, TRUE, TRUE)
           dropped == ResolveAll(call.noop.resolvers, call.noop.branches, EmptyCache,
                                 1, TRUE, FALSE)
       IN /\ resolvers' = kept.resolvers
          /\ branches' = kept.branches
          /\ call' = [call EXCEPT !.cache = kept.cache,
                                  !.noop = [resolvers |-> dropped.resolvers,
                                            branches |-> dropped.branches]]
    /\ attempts' = attempts + 1
    /\ UNCHANGED <<def, graph, schemaErrors, node, stack, trace, callOutcome, escaped>>

\* the upstream node X changes between two attempts
ChangeUpstream ==
    /\ attempts > 0
    /\ attempts < MaxAttempts
    /\ node' \in UpstreamStates \ {node}
    /\ call' = [call EXCEPT !.changed = TRUE]
    /\ UNCHANGED <<def, graph, schemaErrors, resolvers, branches, stack, trace,
                   callOutcome, escaped, attempts>>

\* the process ends and a new one builds the resolvers again; what the
\* persisting adapter stored is still there
Restart ==
    /\ attempts > 0
    /\ attempts < MaxAttempts
    /\ ~call.restarted
    /\ resolvers' = [r \in Resolvers |-> NewResolver(r)]
    /\ branches' = [b \in 2..6 |-> NewBranch]
    /\ call' = [call EXCEPT !.noop = [resolvers |-> resolvers', branches |-> branches'],
                            !.restarted = TRUE]
    /\ UNCHANGED <<def, graph, schemaErrors, node, stack, trace, callOutcome, escaped,
                   attempts>>

CacheNext ==
    \/ AttemptBoth
    \/ ChangeUpstream
    \/ Restart

CacheSpec == CacheInit /\ [][CacheNext]_vars

RECURSIVE SelfOrChildResolutionErrorIn(_, _)
RECURSIVE FirstBranchErrorIn(_, _, _)

\* lines 110-113 on the resolvers rs
FirstBranchErrorIn(rs, list, i) ==
    IF i > Len(list) THEN NoError
    ELSE LET branchResolutionError == SelfOrChildResolutionErrorIn(rs, list[i])
         IN IF branchResolutionError # NoError THEN branchResolutionError
            ELSE FirstBranchErrorIn(rs, list, i + 1)

\* lines 107-114 on the resolvers rs
SelfOrChildResolutionErrorIn(rs, r) ==
    IF rs[r].resolutionError # NoError THEN rs[r].resolutionError
    ELSE FirstBranchErrorIn(rs, BranchList(r), 1)

\* lines 116-119 on the resolvers rs
IsFullyResolvedIn(rs, r) ==
    rs[r].isResolved /\ SelfOrChildResolutionErrorIn(rs, r) = NoError

\* what the claim compares after an attempt
Outcome(rs) == <<IsFullyResolvedIn(rs, 1), rs[1].resolvedValue>>

\* C26 (as stated): after every attempt, whatever the upstream node did
\* between the attempts, isFullyResolved and resolvedValue of the node's
\* resolver are the same against the persisting adapter as against the
\* one that always misses.
C26_NoopCacheEquivalent ==
    (call.fn = "resolve" /\ attempts > 0) => Outcome(resolvers) = Outcome(call.noop.resolvers)

\* C26 (amended): as long as the upstream node has not changed since the
\* cache was empty, isFullyResolved and resolvedValue of the node's
\* resolver after every attempt, in the process that filled the cache and
\* in a later one, are the same against the persisting adapter as
\* against the one that always misses.
C26_NoopCacheEquivalentOnFixedUpstream ==
    (call.fn = "resolve" /\ attempts > 0 /\ ~call.changed)
        => Outcome(resolvers) = Outcome(call.noop.resolvers)

\* the case of C26: in a new process, with the upstream node as it was,
\* the attempt against the persisting adapter ended on a hit with the
\* value of the node and the other one evaluated again
C26_Witness ==
    /\ call.fn = "resolve"
    /\ ~call.changed
    /\ call.restarted
    /\ attempts = 2
    /\ resolvers[1].isUsingCache
    /\ ~call.noop.resolvers[1].isUsingCache
    /\ call.noop.resolvers[1].resolvedValue = "prod"
    /\ resolvers[1].resolvedValue = "prod"
    /\ def.kind[1] = "branches"

\* ---------------------------------------------------------------- effects

\* the resolvers and the branches a call on resolver r may change: r
\* and the resolvers below it, and the branches below it
OutsideOf(r) == Resolvers \ ({r} \cup Descendants(r))

BranchesOutsideOf(r) == 2..6 \ Descendants(r)

\* C27: every step of a resolve call in progress on resolver R leaves
\* the resolvers that are not in R's subtree, and the branches that are
\* not below R, as they were; a step in which ctx.get found a node
\* records the dependency on R (the branch-set when a condition read it,
\* the inner resolver when its resolve function read it) and changes no
\* other resolver's map; and resetResolutionState on any resolver, in
\* any state, changes nothing outside that resolver's subtree.
C27_DownwardOnly ==
    /\ [][~Idle =>
            \E r \in Resolvers :
              /\ r = Top.r
              /\ \A x \in OutsideOf(r) : resolvers'[x] = resolvers[x]
              /\ \A b \in BranchesOutsideOf(r) : branches'[b] = branches[b]
              /\ \A i \in (Len(trace) + 1)..Len(trace') :
                   (trace'[i].ev = "get" /\ trace'[i].out # "missing") =>
                     /\ trace'[i].r = r
                     /\ resolvers'[r].dependsOnPathsObj[FullPath(ExistingPath)] # "none"
                     /\ \A x \in Resolvers \ {r} :
                          resolvers'[x].dependsOnPathsObj = resolvers[x].dependsOnPathsObj]_vars
    /\ [](\A r \in { x \in Resolvers : Exists(x) } :
            LET after == ResetResolutionState(resolvers, branches, r)
            IN /\ \A x \in OutsideOf(r) : after.resolvers[x] = resolvers[x]
               /\ \A b \in BranchesOutsideOf(r) : after.branches[b] = branches[b])

\* the case of C27: a condition of the inner branch-set and the resolve
\* function of the resolver it selected both read the node X, and each
\* dependency is on the resolver that read it, none on the node's set
C27_Witness ==
    /\ callOutcome = "returned"
    /\ HappenedWith("get", 4, "ok")
    /\ HappenedWith("get", 5, "ok")
    /\ resolvers[4].dependsOnPathsObj[FullPath(ExistingPath)] = "resolution"
    /\ resolvers[5].dependsOnPathsObj[FullPath(ExistingPath)] = "resolution"
    /\ \A p \in DepPaths : resolvers[1].dependsOnPathsObj[p] = "none"
    /\ ActiveBranches(1) = {4}
    /\ ActiveBranches(4) = {5}

\* ---------------------------------------------------------------- getFullPath

\* ids a branch definition can carry; those of a switchBy are its case
\* keys, any strings
BranchIds == {"a", "b", "c", "a/b", ""}

\* configNode.getFullPath() of the node that owns the tree
OwningNodeFullPath == FullPath("N")

\* linkedBranch.parentResolver of resolver r in the nested tree (0: r is
\* the node's resolver and has no linkedBranch)
ParentResolver(r) == IF r \in 2..4 THEN 1 ELSE IF r \in 5..6 THEN 4 ELSE 0

RECURSIVE BranchIdPath(_, _)

\* lines 139-149: branchIdPath of resolver r, ids[b] being the id of the
\* branch that owns resolver b
BranchIdPath(ids, r) ==
    IF ParentResolver(r) = 0 THEN Undefined
    ELSE LET thisBranchId == ids[r]
             parentBranchIdPath == BranchIdPath(ids, ParentResolver(r))
         IN IF Truthy(parentBranchIdPath)
            THEN parentBranchIdPath \o "/" \o thisBranchId
            ELSE thisBranchId

\* lines 151-156: _.compact([...]).join('#') drops an undefined or empty
\* branchIdPath
GetFullPath(ids, r) ==
    IF Truthy(BranchIdPath(ids, r))
    THEN OwningNodeFullPath \o "#" \o BranchIdPath(ids, r)
    ELSE OwningNodeFullPath

\* line 512: the cache key of a cacheFunctionResult resolver given no
\* explicit key is ctx.resolverFullPath (line 406)
DefaultCacheKey(ids, r) == GetFullPath(ids, r)

\* the nested tree with any branch ids that differ between the branches
\* of one set
FullPathInit ==
    /\ def = NestedDefinition
    /\ resolvers = [r \in Resolvers |-> NewResolver(r)]
    /\ branches = [b \in 2..6 |-> NewBranch]
    /\ node = UnresolvedNode
    /\ stack = <<>>
    /\ trace = <<>>
    /\ callOutcome = "none"
    /\ escaped = NoError
    /\ attempts = 0
    /\ graph = NoGraph
    /\ schemaErrors = <<>>
    /\ \E ids \in [2..6 -> BranchIds] :
         /\ Cardinality({ ids[b] : b \in 2..4 }) = 3
         /\ ids[5] # ids[6]
         /\ call = [fn |-> "pending", ids |-> ids]

\* a caller asks every resolver of the tree for its full path
CallGetFullPath ==
    /\ call.fn = "pending"
    /\ call' = [fn |-> "getFullPath", ids |-> call.ids,
                paths |-> [r \in Resolvers |-> GetFullPath(call.ids, r)],
                cacheKeys |-> [r \in Resolvers |-> DefaultCacheKey(call.ids, r)]]
    /\ UNCHANGED <<def, graph, schemaErrors, resolvers, branches, node, stack, trace,
                   callOutcome, escaped, attempts>>

FullPathSpec == FullPathInit /\ [][CallGetFullPath]_vars

\* the ids of the branches from the outermost set down to resolver r
RECURSIVE IdChain(_, _)

IdChain(ids, r) ==
    IF ParentResolver(r) = 0 THEN <<>>
    ELSE Append(IdChain(ids, ParentResolver(r)), ids[r])

RECURSIVE Joined(_, _)

\* the strings of chain joined by sep
Joined(chain, sep) ==
    IF Len(chain) = 0 THEN ""
    ELSE IF Len(chain) = 1 THEN chain[1]
    ELSE Joined(SubSeq(chain, 1, Len(chain) - 1), sep) \o sep \o chain[Len(chain)]

\* C28 (as stated): the full path of the node's resolver is the node's
\* full path, that of any other resolver is the node's full path, '#',
\* and the ids of its branches from the outermost down joined by '/';
\* two different resolvers never have the same full path, nor the same
\* default cache key.
C28_FullPathUnique ==
    call.fn = "getFullPath" =>
        /\ call.paths[1] = OwningNodeFullPath
        /\ \A r \in 2..6 :
             call.paths[r] = OwningNodeFullPath \o "#" \o Joined(IdChain(call.ids, r), "/")
        /\ \A r, x \in Resolvers :
             r # x => (call.paths[r] # call.paths[x] /\ call.cacheKeys[r] # call.cacheKeys[x])

\* ---------------------------------------------------------------- Next.js integration

\* The webpack function dmnoNextConfigPlugin adds to a Next.js config
\* (packages/integrations/nextjs/src/index.ts, lines 127-151): the static
\* replacements it hands to webpack.DefinePlugin, computed from the
\* loaded config parsedDmnoLoadedEnv and the isServer option.

\* the keys of parsedDmnoLoadedEnv, in the order for...in visits them
EnvKeys == <<"API_KEY", "SITE_URL">>

\* a loaded item: its sensitive flag, its useAt setting (undefined,
\* 'build' or 'boot') and its value
EnvItems ==
    [sensitive : BOOLEAN, useAt : {Undefined, "build", "boot"}, value : {"v", "w"}]

\* JSON.stringify of a string value
JsonStringify(value) == "\"" \o value \o "\""

EmptyReplacements == [name \in {} |-> ""]

\* staticConfigReplacements[name] = val
Assign(replacements, name, val) ==
    [n \in DOMAIN replacements \cup {name} |-> IF n = name THEN val ELSE replacements[n]]

\* a test that replaces a sensitive item on every build
SensitiveReplacedOnAnyBuild(isServer, item) == item.useAt = "build"

\* line 135: whether a sensitive item is statically replaced
SensitiveReplaced(isServer, item) == isServer /\ item.useAt = "build"

\* line 144: whether a non-sensitive item is statically replaced
PublicReplaced(item) == item.useAt = Undefined \/ item.useAt = "build"

\* lines 133-149: the body of the loop for one key
ReplaceKey(replacements, key, item, isServer) ==
    IF item.sensitive
    THEN IF SensitiveReplaced(isServer, item)
         THEN Assign(replacements, "DMNO_CONFIG." \o key, JsonStringify(item.value))
         ELSE replacements
    ELSE IF PublicReplaced(item)
         THEN Assign(Assign(replacements, "DMNO_PUBLIC_CONFIG." \o key, JsonStringify(item.value)),
                     "DMNO_CONFIG." \o key, JsonStringify(item.value))
         ELSE replacements

RECURSIVE StaticConfigReplacements(_, _, _, _)

\* lines 128-150: the loop over the keys from index i on
StaticConfigReplacements(env, isServer, i, replacements) ==
    IF i > Len(EnvKeys) THEN replacements
    ELSE StaticConfigReplacements(env, isServer, i + 1,
                                  ReplaceKey(replacements, EnvKeys[i], env[EnvKeys[i]], isServer))

NextInit ==
    /\ def \in { d \in Definitions : d.kind = KindsOfLeafTree /\ d.identity[1] = "static" }
    /\ resolvers = [r \in Resolvers |-> NewResolver(r)]
    /\ branches = [b \in 2..6 |-> NewBranch]
    /\ node = UnresolvedNode
    /\ stack = <<>>
    /\ trace = <<>>
    /\ callOutcome = "none"
    /\ escaped = NoError
    /\ attempts = 0
    /\ graph = NoGraph
    /\ schemaErrors = <<>>
    /\ \E env \in [Range(EnvKeys) -> EnvItems], isServer \in BOOLEAN :
         call = [fn |-> "pending", env |-> env, isServer |-> isServer]

\* Next.js calls the webpack function for a server or a client build
CallWebpack ==
    /\ call.fn = "pending"
    /\ call' = [fn |-> "webpack", env |-> call.env, isServer |-> call.isServer,
                replacements |->
                    StaticConfigReplacements(call.env, call.isServer, 1, EmptyReplacements)]
    /\ UNCHANGED <<def, graph, schemaErrors, resolvers, branches, node, stack, trace,
                   callOutcome, escaped, attempts>>

NextJsSpec == NextInit /\ [][CallWebpack]_vars

\* C29: for every key of the loaded config marked sensitive, the
\* replacements handed to DefinePlugin hold no 'DMNO_PUBLIC_CONFIG.<key>',
\* hold no 'DMNO_CONFIG.<key>' on a client build, and hold
\* 'DMNO_CONFIG.<key>' only on a server build of an item used at build
\* time; no replacement of a client build comes from a sensitive item.
C29_SensitiveNotReplacedForClient ==
    call.fn = "webpack" =>
        /\ \A key \in Range(EnvKeys) :
             call.env[key].sensitive =>
               /\ ("DMNO_PUBLIC_CONFIG." \o key) \notin DOMAIN call.replacements
               /\ ~call.isServer => ("DMNO_CONFIG." \o key) \notin DOMAIN call.replacements
               /\ ("DMNO_CONFIG." \o key) \in DOMAIN call.replacements
                    => (call.isServer /\ call.env[key].useAt = "build")
        /\ ~call.isServer =>
             \A name \in DOMAIN call.replacements :
               \E key \in Range(EnvKeys) :
                 /\ ~call.env[key].sensitive
                 /\ name \in {"DMNO_PUBLIC_CONFIG." \o key, "DMNO_CONFIG." \o key}
                 /\ call.replacements[name] = JsonStringify(call.env[key].value)

\* the case of C29: a client build of a config with a sensitive item
\* used at build time next to a public one
C29_Witness ==
    /\ call.fn = "webpack"
    /\ ~call.isServer
    /\ call.env["API_KEY"].sensitive
    /\ call.env["API_KEY"].useAt = "build"
    /\ ~call.env["SITE_URL"].sensitive
    /\ DOMAIN call.replacements = {"DMNO_PUBLIC_CONFIG.SITE_URL", "DMNO_CONFIG.SITE_URL"}

\* ---------------------------------------------------------------- getItemSummary

\* The console summary of a config item (packages/core/src/config-engine/
\* plugins.ts, getItemSummary, lines 326-359, with formattedValue 266-296
\* and joinAndCompact 322-324).  A text is a sequence of tokens: one token
\* per character of a value, one per fixed piece of text or colour.

Chars == {"1", "2"}

MaxValueLen == 3

MaxNumberLen == 2

\* the strings of at most MaxValueLen characters
StringsUpTo(n) == UNION { [1..k -> Chars] : k \in 0..n }

\* a resolved or raw value: undefined, a string, or a number written
\* with the digits of Chars
UndefinedValue == [type |-> "undefined", chars |-> <<>>]

SummaryValues ==
    {UndefinedValue}
    \cup [type : {"string"}, chars : StringsUpTo(MaxValueLen)]
    \cup [type : {"number"}, chars : StringsUpTo(MaxNumberLen) \ {<<>>}]

\* the errors an item carries: none, a coercion error, a validation error
ItemErrors ==
    { <<>>,
      <<[type |-> "CoercionError", message |-> "cannot coerce"]>>,
      <<[type |-> "ValidationError", message |-> "too short"]>> }

SummaryItems ==
    [key : {"SECRET"}, sensitive : BOOLEAN, required : BOOLEAN, errors : ItemErrors,
     resolvedValue : SummaryValues, resolvedRawValue : SummaryValues]

\* item.isValid
IsValid(item) == item.errors = <<>>

\* JavaScript truthiness of a value: undefined and '' are falsy
TruthyValue(val) == val.type # "undefined" /\ val.chars # <<>>

\* val.toString().substring(0, 2)
FirstTwo(val) == SubSeq(val.chars, 1, IF Len(val.chars) < 2 THEN Len(val.chars) ELSE 2)

\* formattedValue(val, false)
FormattedValue(val) ==
    IF val.type = "number" THEN <<"yellow(">> \o val.chars \o <<")">>
    ELSE IF val.type = "string" THEN <<"\"">> \o val.chars \o <<"\"">>
    ELSE <<"gray(", "undefined", ")">>

RECURSIVE JoinFrom(_, _, _, _)

\* strings.filter((s) => !!s).join(joinChar), from part i on; a part
\* that is false or '' is the empty text
JoinFrom(strings, joinChar, i, acc) ==
    IF i > Len(strings) THEN acc
    ELSE IF strings[i] = <<>> THEN JoinFrom(strings, joinChar, i + 1, acc)
    ELSE JoinFrom(strings, joinChar, i + 1,
                  IF acc = <<>> THEN strings[i] ELSE acc \o <<joinChar>> \o strings[i])

JoinAndCompact(strings) == JoinFrom(strings, " ", 1, <<>>)

\* lines 340-343: the value as the summary shows it
ValuePart(item) ==
    IF item.sensitive /\ TruthyValue(item.resolvedValue)
    THEN <<"\"">> \o FirstTwo(item.resolvedValue) \o <<"bold(", "masked", ")", "\"">>
    ELSE FormattedValue(item.resolvedValue)

\* lines 347-348: the raw value, shown when it is not the resolved one
CoercedPart(item) ==
    IF item.resolvedRawValue # item.resolvedValue
    THEN <<"gray(", "< coerced from ", ")">> \o FormattedValue(item.resolvedRawValue)
    ELSE <<>>

RECURSIVE ErrorLines(_, _)

\* lines 354-357: one line per error
ErrorLines(errors, i) ==
    IF i > Len(errors) THEN <<>>
    ELSE <<"\n", "red(", "   - ", errors[i].message, ")">> \o ErrorLines(errors, i + 1)

GetItemSummary(item) ==
    JoinAndCompact(<<
        <<IF item.errors = <<>> THEN "ok-icon" ELSE "icon of " \o item.errors[1].type>>,
        <<IF IsValid(item) THEN "green(" ELSE "red(", item.key, ")">>
            \o (IF item.required THEN <<"yellow(", "*", ")">> ELSE <<>>),
        IF item.sensitive THEN <<" ", "lock", "gray(", "sensitive", ")">> ELSE <<>> >>)
    \o <<"\n">>
    \o JoinAndCompact(<< <<"gray(", "   L", ")">>, ValuePart(item), CoercedPart(item) >>)
    \o ErrorLines(item.errors, 1)

SummaryInit ==
    /\ def \in { d \in Definitions : d.kind = KindsOfLeafTree /\ d.identity[1] = "static" }
    /\ resolvers = [r \in Resolvers |-> NewResolver(r)]
    /\ branches = [b \in 2..6 |-> NewBranch]
    /\ node = UnresolvedNode
    /\ stack = <<>>
    /\ trace = <<>>
    /\ callOutcome = "none"
    /\ escaped = NoError
    /\ attempts = 0
    /\ graph = NoGraph
    /\ schemaErrors = <<>>
    /\ \E item \in SummaryItems : call = [fn |-> "pending", item |-> item]

\* the summary of the item is printed
CallGetItemSummary ==
    /\ call.fn = "pending"
    /\ call' = [fn |-> "getItemSummary", item |-> call.item,
                summary |-> GetItemSummary(call.item)]
    /\ UNCHANGED <<def, graph, schemaErrors, resolvers, branches, node, stack, trace,
                   callOutcome, escaped, attempts>>

SummarySpec == SummaryInit /\ [][CallGetItemSummary]_vars

\* two items that differ at most in the raw value and in the resolved
\* value beyond its first two characters
SameButSecret(item, other) ==
    /\ other.key = item.key
    /\ other.sensitive = item.sensitive
    /\ other.required = item.required
    /\ other.errors = item.errors
    /\ other.resolvedValue.type = item.resolvedValue.type
    /\ FirstTwo(other.resolvedValue) = FirstTwo(item.resolvedValue)

\* C30: the summary of a sensitive item depends on at most the first two
\* characters of its resolved value and not on its raw value: every
\* sensitive item that differs from the summarised one only beyond those
\* two characters, or only in the raw value, has the same summary.
C30_SummaryHidesSensitive ==
    (call.fn = "getItemSummary" /\ call.item.sensitive) =>
        \A rv, raw \in SummaryValues :
          LET other == [call.item EXCEPT !.resolvedValue = rv, !.resolvedRawValue = raw]
          IN  SameButSecret(call.item, other) => GetItemSummary(other) = call.summary

\* ---------------------------------------------------------------- errors and the active chain

RECURSIVE ActiveChainError(_)

\* the walk of selfOrChildResolutionError restricted to active branches
ActiveChainError(r) ==
    IF resolvers[r].resolutionError # NoError THEN resolvers[r].resolutionError
    ELSE IF ActiveBranches(r) = {} THEN NoError
    ELSE ActiveChainError(CHOOSE b \in ActiveBranches(r) : TRUE)

\* C31: after a resolve call on the node's resolver returned, every
\* resolver of the tree that holds a resolutionError is the node's
\* resolver or lies on the chain of active branches below it, and
\* selfOrChildResolutionError, which scans every branch, gives what a walk
\* down the active branches gives.
C31_ErrorsOnActiveChain ==
    callOutcome = "returned" =>
        /\ \A r \in Resolvers :
             (Exists(r) /\ resolvers[r].resolutionError # NoError) => r \in ActiveChainOf(1)
        /\ SelfOrChildResolutionError(1) = ActiveChainError(1)

\* the case of C31: a second attempt selects another branch than the
\* first, whose resolver had failed, and ends with an error two levels
\* down the active chain
C31_Witness ==
    /\ callOutcome = "returned"
    /\ attempts = 2
    /\ ActiveBranches(1) = {4}
    /\ \E b \in ActiveBranches(4) : resolvers[b].resolutionError # NoError
    /\ SelfOrChildResolutionError(1) # NoError
    /\ \A r \in Resolvers \ ActiveChainOf(1) : resolvers[r].resolutionError = NoError

\* ---------------------------------------------------------------- leaf outcome

\* the resolve attempt of r in the current top-level call is over: its
\* promise was fulfilled or rejected
Completed(r) == Happened("end", r) \/ Happened("raise", r)

\* C32 (as stated): after every completed resolve attempt of a leaf
\* resolver, in any sequence of attempts, isResolved is true exactly when
\* resolutionError is undefined.
C32_LeafOutcomeExclusive ==
    \A r \in Leaves :
        Completed(r) => (resolvers[r].isResolved <=> resolvers[r].resolutionError = NoError)

\* ---------------------------------------------------------------- merged dependency views

\* C33 (as stated): a path tagged 'schema' in the own map of the resolver,
\* or of a resolver the view includes, is reported as 'schema' by
\* getDependencyMap('all') and getDependencyMap('active'), even when an
\* included branch resolver holds the same path as 'resolution'.
C33_SchemaNotDowngraded ==
    (call.fn = "getDependencyMap" /\ call.mode \in {"all", "active"}) =>
        \A p \in DepPaths :
            (\E x \in Contributors(call.r, call.mode) :
                 call.before[x].dependsOnPathsObj[p] = "schema")
            => call.map[p] = "schema"

\* ---------------------------------------------------------------- overlapping resolve calls

\* Several resolve calls on the resolver of one node, each an async
\* function that gives up control at its awaits: the cache read of line
\* 223, the resolve function of line 282, the delegation of line 268 and
\* the cache writes of line 297.  A step runs one call from one await to
\* the next; which call goes on next is up to the promises awaited.  The
\* tree is the flat one (two conditional branches and a default); its
\* functions are fixed in call.fns; no cache read hits.

\* resolve calls that may be in flight together
MaxCalls == 2

Calls == 1..MaxCalls

\* the resolve functions of the branches' resolvers: each returns a value
\* of its own, or the value of the node X
OverlapEvalBehaviours(r) ==
    { Behaviour("none", "return", <<"value of", r>>, NoError),
      Behaviour(ExistingPath, "returnGotten", Undefined, NoError) }

OverlapFunctions ==
    { [eval |-> e, cond |-> c] :
        e \in { f \in [2..4 -> UNION { OverlapEvalBehaviours(r) : r \in 2..4 }] :
                  \A r \in 2..4 : f[r] \in OverlapEvalBehaviours(r) },
        c \in [2..3 -> DeterministicConditionBehaviours] }

\* a call that has not started
IdleCall == [pc |-> "idle", matchingBranch |-> 0, threw |-> FALSE, err |-> NoError,
             value |-> Undefined, failed |-> FALSE]

OverlapInit ==
    /\ def = FlatDefinition
    /\ resolvers = [r \in Resolvers |-> NewResolver(r)]
    /\ branches = [b \in 2..6 |-> NewBranch]
    /\ node \in UpstreamStates
    /\ stack = <<>>
    /\ trace = <<>>
    /\ callOutcome = "none"
    /\ escaped = NoError
    /\ attempts = 0
    /\ graph = NoGraph
    /\ schemaErrors = <<>>
    /\ \E fns \in OverlapFunctions :
         call = [fn |-> "resolve", fns |-> fns, calls |-> [c \in Calls |-> IdleCall],
                 changed |-> FALSE]

\* lines 280-282 up to the await: the resolve function of the branch's
\* resolver b is called, and what it reads through ctx.get is recorded
CallChildFn(rs, b, frame) ==
    LET res == RunUserFn(call.fns.eval[b], b, [rec |-> rs[b], ctxDependsOn |-> {}])
    IN [resolvers |-> [rs EXCEPT ![b] = res.st.rec],
        frame |-> [frame EXCEPT !.pc = "childAwait", !.threw = res.threw,
                                !.err = res.err, !.value = res.value]]

\* lines 265-268 and, in the branch's resolver, 207-223: the delegation
\* up to the first await of the child's resolve
BeginChild(rs, bs, b, frame) ==
    LET reset == ResetResolutionState(rs, bs, b)
    IN IF Truthy(ComputeCacheKey(b, "ok"))
       THEN [resolvers |-> reset.resolvers, branches |-> reset.branches,
             frame |-> [frame EXCEPT !.pc = "childCacheRead"]]
       ELSE [resolvers |-> CallChildFn(reset.resolvers, b, frame).resolvers,
             branches |-> reset.branches,
             frame |-> CallChildFn(reset.resolvers, b, frame).frame]

\* lines 234-268 on the conditions' outcome found
SelectAndDelegate(found, frame) ==
    LET list == BranchList(1)
        rs1 == [resolvers EXCEPT ![1] = found.st.rec]
        matchingBranch == IF found.matching # 0 THEN found.matching ELSE FindDefault(list, 1)
    IN IF FailedEvaluatingConditions(found.st.rec)
       THEN [resolvers |-> [rs1 EXCEPT ![1].isResolved = FALSE], branches |-> branches,
             frame |-> [frame EXCEPT !.pc = "done", !.failed = TRUE]]
       ELSE BeginChild(rs1, Activate(branches, list, matchingBranch), matchingBranch,
                       [frame EXCEPT !.matchingBranch = matchingBranch])

\* the state a step of call c leaves
StepTo(c, next) ==
    /\ resolvers' = next.resolvers
    /\ branches' = next.branches
    /\ call' = [call EXCEPT !.calls[c] = next.frame]
    /\ UNCHANGED <<def, graph, schemaErrors, node, stack, trace, callOutcome, escaped,
                   attempts>>

\* lines 207-223: a caller invokes resolve; it resets and awaits the cache
StartCall(c) ==
    /\ call.calls[c].pc = "idle"
    /\ Truthy(ComputeCacheKey(1, "ok"))
    /\ LET reset == ResetResolutionState(resolvers, branches, 1)
       IN StepTo(c, [resolvers |-> reset.resolvers, branches |-> reset.branches,
                     frame |-> [call.calls[c] EXCEPT !.pc = "cacheRead"]])

\* lines 224-268: the cache read misses; conditions, activation, delegation
RootCacheMiss(c) ==
    /\ call.calls[c].pc = "cacheRead"
    /\ StepTo(c, SelectAndDelegate(
                     FindMatching(1, BranchList(1), 1, call.fns.cond,
                                  [rec |-> resolvers[1], ctxDependsOn |-> {}], <<>>),
                     call.calls[c]))

\* lines 224-282 of the branch's resolver: its cache read misses
ChildCacheMiss(c) ==
    /\ call.calls[c].pc = "childCacheRead"
    /\ LET next == CallChildFn(resolvers, call.calls[c].matchingBranch, call.calls[c])
       IN StepTo(c, [resolvers |-> next.resolvers, branches |-> branches,
                     frame |-> next.frame])

\* lines 282-297 of the branch's resolver: its resolve function settles
ChildSettles(c) ==
    /\ call.calls[c].pc = "childAwait"
    /\ LET frame == call.calls[c]
           b == frame.matchingBranch
       IN IF frame.threw
          THEN StepTo(c, [resolvers |-> [resolvers EXCEPT
                                            ![b] = CatchEvalError(@, frame.err)],
                          branches |-> branches,
                          frame |-> [frame EXCEPT !.pc = "afterChild", !.failed = TRUE]])
          ELSE StepTo(c, [resolvers |-> [resolvers EXCEPT ![b].resolvedValue = frame.value,
                                                          ![b].isResolved = TRUE],
                          branches |-> branches,
                          frame |-> [frame EXCEPT !.pc =
                                        IF ShouldSetCacheItem(ComputeCacheKey(b, "ok"),
                                                              frame.value)
                                        THEN "childCacheWrite" ELSE "afterChild"]])

\* line 297 of the branch's resolver: its cache write is done, it returns
ChildCacheWritten(c) ==
    /\ call.calls[c].pc = "childCacheWrite"
    /\ StepTo(c, [resolvers |-> resolvers, branches |-> branches,
                  frame |-> [call.calls[c] EXCEPT !.pc = "afterChild"]])

\* lines 268-297: the delegation returned; the value is copied
AfterChildReturns(c) ==
    /\ call.calls[c].pc = "afterChild"
    /\ LET frame == call.calls[c]
           value == resolvers[frame.matchingBranch].resolvedValue
       IN StepTo(c, [resolvers |-> [resolvers EXCEPT ![1].resolvedValue = value,
                                                     ![1].isResolved = TRUE],
                     branches |-> branches,
                     frame |-> [frame EXCEPT !.pc =
                                   IF ShouldSetCacheItem(ComputeCacheKey(1, "ok"), value)
                                   THEN "cacheWrite" ELSE "done"]])

\* line 297: the cache write is done, the call returns
RootCacheWritten(c) ==
    /\ call.calls[c].pc = "cacheWrite"
    /\ StepTo(c, [resolvers |-> resolvers, branches |-> branches,
                  frame |-> [call.calls[c] EXCEPT !.pc = "done"]])

\* the upstream node X changes while calls are in flight
UpstreamChanges ==
    /\ ~call.changed
    /\ \E c \in Calls : call.calls[c].pc # "idle"
    /\ \E c \in Calls : call.calls[c].pc # "done"
    /\ node' \in UpstreamStates \ {node}
    /\ call' = [call EXCEPT !.changed = TRUE]
    /\ UNCHANGED <<def, graph, schemaErrors, resolvers, branches, stack, trace,
                   callOutcome, escaped, attempts>>

OverlapNext ==
    \/ \E c \in Calls : StartCall(c)
    \/ \E c \in Calls : RootCacheMiss(c)
    \/ \E c \in Calls : ChildCacheMiss(c)
    \/ \E c \in Calls : ChildSettles(c)
    \/ \E c \in Calls : ChildCacheWritten(c)
    \/ \E c \in Calls : AfterChildReturns(c)
    \/ \E c \in Calls : RootCacheWritten(c)
    \/ UpstreamChanges

OverlapSpec == OverlapInit /\ [][OverlapNext]_vars

\* C34 (as stated): once every one of the overlapping resolve calls on
\* the branch-set has returned, none of them with a cache hit or an error,
\* exactly one branch is active and the resolvedValue of the branch-set
\* is the resolvedValue of the active branch's resolver.
C34_ValueMatchesActiveBranch ==
    (\A c \in Calls : call.calls[c].pc = "done" /\ ~call.calls[c].failed) =>
        /\ Cardinality(ActiveBranches(1)) = 1
        /\ \A b \in ActiveBranches(1) : resolvers[1].resolvedValue = resolvers[b].resolvedValue

\* ---------------------------------------------------------------- ConfigLoaderProcess

\* The request/response tooling of ConfigLoaderProcess
\* (packages/core/src/cli/lib/loader-process.ts, lines 71-78 and 105-152).
\* call.isReady: the 'ready' event was received (line 77).
\* call.requestCounter, call.requests: lines 105-106; the table maps the
\* property name of a request id to the request whose deferred promise it
\* holds (0 for no entry).  call.callers[k]: where the k-th makeRequest
\* call is, the id it took, how often 'request' was broadcast for it, how
\* often its promise was resolved and with what, and (early) whether it
\* was called before the 'ready' event.  call.thrown: what the last
\* handleRequestResponse call threw.

\* makeRequest calls made
MaxRequests == 3

Callers == 1..MaxRequests

\* the property name a request id indexes the table with
ToKey(requestId) == ToString(requestId)

\* the requestId of an incoming response: the id of a request made, of
\* one never made, or the name of a property every object inherits
ResponseKeys == { ToKey(n) : n \in 1..(MaxRequests + 1) } \cup {"toString"}

InheritedKeys == {"toString"}

Payloads == {"config", "other"}

NewCaller == [pc |-> "idle", early |-> FALSE, requestId |-> 0, broadcasts |-> 0,
              resolutions |-> 0, response |-> Undefined]

LoaderInit ==
    /\ def \in { d \in Definitions : d.kind = KindsOfLeafTree /\ d.identity[1] = "static" }
    /\ resolvers = [r \in Resolvers |-> NewResolver(r)]
    /\ branches = [b \in 2..6 |-> NewBranch]
    /\ node = UnresolvedNode
    /\ stack = <<>>
    /\ trace = <<>>
    /\ callOutcome = "none"
    /\ escaped = NoError
    /\ attempts = 0
    /\ graph = NoGraph
    /\ schemaErrors = <<>>
    /\ call = [fn |-> "loader", isReady |-> FALSE, requestCounter |-> 1,
               requests |-> [key \in ResponseKeys |-> 0],
               callers |-> [k \in Callers |-> NewCaller], thrown |-> "none"]

LoaderUnchanged ==
    UNCHANGED <<def, graph, schemaErrors, resolvers, branches, node, stack, trace,
                callOutcome, escaped, attempts>>

\* lines 110-115: a makeRequest call starts and awaits isReady.promise
MakeRequest(k) ==
    /\ call.callers[k].pc = "idle"
    /\ call' = [call EXCEPT !.callers[k].pc = "awaitingReady",
                            !.callers[k].early = ~call.isReady]
    /\ LoaderUnchanged

\* lines 75-78: the loader's 'ready' event
OnReady ==
    /\ call' = [call EXCEPT !.isReady = TRUE]
    /\ LoaderUnchanged

\* a makeRequest that broadcasts without waiting for isReady
MayBroadcastBeforeReady(k) == call.callers[k].pc = "awaitingReady"

\* line 115: the await of isReady.promise is over
MayBroadcast(k) == call.callers[k].pc = "awaitingReady" /\ call.isReady

\* lines 119-135: the id is taken, the deferred promise stored and the
\* 'request' message broadcast
Broadcast(k) ==
    /\ MayBroadcast(k)
    /\ LET requestId == call.requestCounter
       IN call' = [call EXCEPT !.requestCounter = requestId + 1,
                               !.requests[ToKey(requestId)] = k,
                               !.callers[k].pc = "pending",
                               !.callers[k].requestId = requestId,
                               !.callers[k].broadcasts = @ + 1]
    /\ LoaderUnchanged

\* a handleRequestResponse that leaves the entry in the table
ResponseHandledKeepingEntry(key, response) ==
    IF call.requests[key] = 0
    THEN [call EXCEPT !.thrown = IF key \in InheritedKeys THEN "TypeError" ELSE "Error"]
    ELSE [call EXCEPT !.callers[call.requests[key]].pc = "resolved",
                      !.callers[call.requests[key]].resolutions = @ + 1,
                      !.callers[call.requests[key]].response = response,
                      !.thrown = "none"]

\* lines 139-152: handleRequestResponse on a message with this requestId
\* and response.  A key the table lacks but every object inherits passes
\* the test of line 145, and line 148 then throws a TypeError.
ResponseHandled(key, response) ==
    IF call.requests[key] = 0
    THEN [call EXCEPT !.thrown = IF key \in InheritedKeys THEN "TypeError" ELSE "Error"]
    ELSE [call EXCEPT !.callers[call.requests[key]].pc = "resolved",
                      !.callers[call.requests[key]].resolutions = @ + 1,
                      !.callers[call.requests[key]].response = response,
                      !.requests[key] = 0,
                      !.thrown = "none"]

\* lines 71-73: a 'request-response' message comes in
OnRequestResponse(key, response) ==
    /\ call' = ResponseHandled(key, response)
    /\ LoaderUnchanged

LoaderNext ==
    \/ \E k \in Callers : MakeRequest(k)
    \/ OnReady
    \/ \E k \in Callers : Broadcast(k)
    \/ \E key \in ResponseKeys, response \in Payloads : OnRequestResponse(key, response)

LoaderSpec == LoaderInit /\ [][LoaderNext]_vars

\* the continuation of a settled promise is run
LoaderFairSpec == LoaderSpec /\ \A k \in Callers : WF_vars(Broadcast(k))

\* C35: no 'request' message is broadcast before the 'ready' event was
\* received; a request made before it is held, and once the loader is
\* ready every request made is broadcast, exactly once.
C35_BroadcastOnlyWhenReady ==
    /\ [](\A k \in Callers :
            /\ call.callers[k].broadcasts <= 1
            /\ call.callers[k].broadcasts = 1 => call.isReady
            /\ (call.callers[k].pc = "awaitingReady" /\ ~call.isReady)
                 => call.callers[k].broadcasts = 0)
    /\ [][\A k \in Callers :
            call'.callers[k].broadcasts # call.callers[k].broadcasts => call.isReady]_vars
    /\ \A k \in Callers :
         (call.callers[k].pc = "awaitingReady" /\ call.isReady)
            ~> (call.callers[k].broadcasts = 1)

\* the case of C35: a request made before the 'ready' event was broadcast
\* once after it, while another made before it is still held back
C35_Witness ==
    /\ call.isReady
    /\ call.callers[1].early
    /\ call.callers[1].broadcasts = 1
    /\ call.callers[2].early
    /\ call.callers[2].pc = "awaitingReady"
    /\ call.callers[2].broadcasts = 0

\* the request whose deferred promise the table holds under key (0: none)
PendingUnder(key) ==
    IF \E k \in Callers : call.callers[k].pc = "pending" /\ ToKey(call.callers[k].requestId) = key
    THEN CHOOSE k \in Callers :
             call.callers[k].pc = "pending" /\ ToKey(call.callers[k].requestId) = key
    ELSE 0

\* C36: under any interleaving of makeRequest calls and incoming
\* responses, the requests have distinct ids, the table holds exactly the
\* pending requests under their ids, no request is resolved more than
\* once, a response with the id of a pending request resolves that
\* request, and no other, with its payload and removes it from the table,
\* and a response with any other id throws and resolves nothing.
C36_RequestResponseMatching ==
    /\ [](/\ \A k, j \in Callers :
               (k # j /\ call.callers[k].requestId # 0)
                  => call.callers[k].requestId # call.callers[j].requestId
          /\ \A k \in Callers : call.callers[k].resolutions <= 1
          /\ \A key \in ResponseKeys : call.requests[key] = PendingUnder(key))
    /\ [][\A key \in ResponseKeys, response \in Payloads :
            OnRequestResponse(key, response) =>
               LET k == PendingUnder(key)
               IN IF k # 0
                  THEN /\ call'.callers =
                            [call.callers EXCEPT ![k].pc = "resolved",
                                                 ![k].resolutions = 1,
                                                 ![k].response = response]
                       /\ call'.requests = [call.requests EXCEPT ![key] = 0]
                       /\ call'.thrown = "none"
                  ELSE /\ call'.callers = call.callers
                       /\ call'.requests = call.requests
                       /\ call'.thrown # "none"]_vars

\* the case of C36: two requests were answered in the reverse order of
\* their ids, each with its own payload, a third is pending, and a
\* response with an id already answered was refused
C36_Witness ==
    /\ call.callers[1].requestId = 2
    /\ call.callers[2].requestId = 1
    /\ call.callers[1].pc = "resolved"
    /\ call.callers[1].response = "config"
    /\ call.callers[2].pc = "resolved"
    /\ call.callers[2].response = "other"
    /\ call.callers[3].pc = "pending"
    /\ call.requests[ToKey(3)] = 3
    /\ call.thrown = "Error"

\* ---------------------------------------------------------------- plugin registration

\* The module-level registry of plugins (packages/core/src/config-engine/
\* plugins.ts, lines 194-242).  injectablePlugins and currentPlugins are
\* references to objects: call.heap[o] is the object o, a map from
\* injection names to plugins (0 for no entry), and call.injectablePlugins
\* and call.currentPlugins name the objects the two variables refer to.
\* call.window and call.rootRegistered record the calls made: the
\* registrations since the last startPluginRegistration(true) that no
\* other start or finish followed, and those made between a
\* startPluginRegistration(true) and its finishPluginRegistration.

\* startPluginRegistration calls made
MaxStarts == 2

\* the objects: the two of lines 194-195 and one per start
Objects == 1..(MaxStarts + 2)

\* injection names, _.compact([ClassName, name]).join('/')
InjectionNames == {"VaultPlugin", "VaultPlugin/prod"}

PluginInstances == 1..2

EmptyObject == [n \in InjectionNames |-> 0]

PluginsInit ==
    /\ def \in { d \in Definitions : d.kind = KindsOfLeafTree /\ d.identity[1] = "static" }
    /\ resolvers = [r \in Resolvers |-> NewResolver(r)]
    /\ branches = [b \in 2..6 |-> NewBranch]
    /\ node = UnresolvedNode
    /\ stack = <<>>
    /\ trace = <<>>
    /\ callOutcome = "none"
    /\ escaped = NoError
    /\ attempts = 0
    /\ graph = NoGraph
    /\ schemaErrors = <<>>
    /\ call = [fn |-> "plugins", heap |-> [o \in Objects |-> EmptyObject],
               injectablePlugins |-> 1, currentPlugins |-> 2, allocated |-> 2,
               processingRootConfig |-> FALSE,
               window |-> [root |-> FALSE, registered |-> {}], rootRegistered |-> {},
               injected |-> [name |-> "none", plugin |-> 0, threw |-> FALSE]]

PluginsUnchanged ==
    UNCHANGED <<def, graph, schemaErrors, resolvers, branches, node, stack, trace,
                callOutcome, escaped, attempts>>

\* lines 198-203
StartPluginRegistration(isRoot) ==
    /\ call.allocated < MaxStarts + 2
    /\ call' = [call EXCEPT !.processingRootConfig = isRoot,
                            !.allocated = @ + 1,
                            !.currentPlugins = call.allocated + 1,
                            !.window = [root |-> isRoot, registered |-> {}]]
    /\ PluginsUnchanged

\* lines 204-209
FinishPluginRegistration ==
    /\ call' = [call EXCEPT !.injectablePlugins =
                                IF call.processingRootConfig THEN call.currentPlugins ELSE @,
                            !.processingRootConfig = FALSE,
                            !.rootRegistered =
                                IF call.window.root THEN @ \cup call.window.registered ELSE @,
                            !.window = [root |-> FALSE, registered |-> {}]]
    /\ PluginsUnchanged

\* lines 213-221
RegisterPlugin(injectionName, plugin) ==
    /\ call' = [call EXCEPT !.heap[call.currentPlugins][injectionName] = plugin,
                            !.window.registered =
                                IF call.window.root THEN @ \cup {<<injectionName, plugin>>}
                                ELSE @]
    /\ PluginsUnchanged

\* lines 226-242
InjectPlugin(injectionName) ==
    /\ LET pluginToInject == call.heap[call.injectablePlugins][injectionName]
       IN call' = [call EXCEPT !.injected = [name |-> injectionName,
                                             plugin |-> pluginToInject,
                                             threw |-> pluginToInject = 0]]
    /\ PluginsUnchanged

PluginsNext ==
    \/ \E isRoot \in BOOLEAN : StartPluginRegistration(isRoot)
    \/ FinishPluginRegistration
    \/ \E n \in InjectionNames, p \in PluginInstances : RegisterPlugin(n, p)
    \/ \E n \in InjectionNames : InjectPlugin(n)

PluginsSpec == PluginsInit /\ [][PluginsNext]_vars

\* C37 (as stated): injectPlugin returns a plugin only if it was
\* registered under the same injection name between a
\* startPluginRegistration(true) and its finishPluginRegistration, and
\* throws for every other name; a plugin registered after that finish or
\* during a non-root registration is never returned.
C37_OnlyRootRegisteredInjectable ==
    call.injected.name # "none" =>
        /\ ~call.injected.threw =>
              <<call.injected.name, call.injected.plugin>> \in call.rootRegistered
        /\ (\A p \in PluginInstances : <<call.injected.name, p>> \notin call.rootRegistered)
              => call.injected.threw

\* ---------------------------------------------------------------- plugin inputs

\* The inputs of a DmnoPlugin (packages/core/src/config-engine/plugins.ts,
\* lines 49-170).  call.inputSchema[key]: the `extends` of the input's
\* schema ("none", the name of a type given as a string, or a type).
\* call.inputState[key]: the PluginInputStateItem of the input, a field
\* that was never assigned being "undefined".  call.inputsAllResolved:
\* the private field behind the getter of line 67.

InputKeys == <<"token", "vaultName">>

\* inputSchema[key].extends: absent, a type name, a data type
SchemaExtends == {"none", "a type name", "TokenType"}

ItemPaths == {"OP_TOKEN", "OTHER"}

\* what the constructor is given for an input: nothing, a ConfigPath,
\* InjectPluginInputByType, or a value
InputMappings ==
    {[kind |-> "undefined", path |-> "undefined", value |-> "undefined"],
     [kind |-> "InjectPluginInputByType", path |-> "undefined", value |-> "undefined"],
     [kind |-> "value", path |-> "undefined", value |-> "static"]}
    \cup { [kind |-> "ConfigPath", path |-> p, value |-> "undefined"] : p \in ItemPaths }

\* a resolved config item: its path, the type its type extends, its value
ResolvedItems ==
    [path : ItemPaths, parentType : {"none", "TokenType"}, resolvedValue : {"v", "w"}]

\* lines 79-111: the state setInputValue stores for an input
InputStateFor(inputValueOrMapping) ==
    CASE inputValueOrMapping.kind = "undefined" ->
           [path |-> "undefined", isResolved |-> "undefined", method |-> "undefined",
            resolvedValue |-> "undefined"]
      [] inputValueOrMapping.kind = "ConfigPath" ->
           [path |-> inputValueOrMapping.path, isResolved |-> "false", method |-> "path",
            resolvedValue |-> "undefined"]
      [] inputValueOrMapping.kind = "InjectPluginInputByType" ->
           [path |-> "undefined", isResolved |-> "false", method |-> "injection-by-type",
            resolvedValue |-> "undefined"]
      [] OTHER ->
           [path |-> "undefined", isResolved |-> "true", method |-> "static",
            resolvedValue |-> inputValueOrMapping.value]

\* lines 126-167: the body of the loop for one input
CheckInput(inputSchemaItem, inputMappingState, item) ==
    IF inputMappingState.path = item.path
    THEN [inputMappingState EXCEPT !.resolvedValue = item.resolvedValue,
                                   !.isResolved = "true"]
    ELSE IF /\ inputMappingState.method = "injection-by-type"
            /\ inputMappingState.isResolved # "true"
            /\ inputSchemaItem \notin {"none", "a type name"}
            /\ item.parentType = inputSchemaItem
    THEN [inputMappingState EXCEPT !.isResolved = "true",
                                   !.resolvedValue = item.resolvedValue]
    ELSE inputMappingState

PluginInputInit ==
    /\ def \in { d \in Definitions : d.kind = KindsOfLeafTree /\ d.identity[1] = "static" }
    /\ resolvers = [r \in Resolvers |-> NewResolver(r)]
    /\ branches = [b \in 2..6 |-> NewBranch]
    /\ node = UnresolvedNode
    /\ stack = <<>>
    /\ trace = <<>>
    /\ callOutcome = "none"
    /\ escaped = NoError
    /\ attempts = 0
    /\ graph = NoGraph
    /\ schemaErrors = <<>>
    /\ \E schema \in [Range(InputKeys) -> SchemaExtends],
          inputMapping \in [Range(InputKeys) -> InputMappings] :
         call = [fn |-> "plugin", inputSchema |-> schema,
                 inputState |-> [key \in Range(InputKeys) |-> InputStateFor(inputMapping[key])],
                 inputsAllResolved |-> FALSE]

PluginInputUnchanged ==
    UNCHANGED <<def, graph, schemaErrors, resolvers, branches, node, stack, trace,
                callOutcome, escaped, attempts>>

\* lines 79-111: setInputValue(key, inputValueOrMapping)
SetInputValue(key, inputValueOrMapping) ==
    /\ call' = [call EXCEPT !.inputState[key] = InputStateFor(inputValueOrMapping)]
    /\ PluginInputUnchanged

\* lines 123-169: checkIfResolvedConfigItemResolvesInput(item)
CheckIfResolvedConfigItemResolvesInput(item) ==
    /\ call' = [call EXCEPT !.inputState =
                   [key \in Range(InputKeys) |->
                       CheckInput(call.inputSchema[key], call.inputState[key], item)]]
    /\ PluginInputUnchanged

PluginInputNext ==
    \/ \E key \in Range(InputKeys), m \in InputMappings : SetInputValue(key, m)
    \/ \E item \in ResolvedItems : CheckIfResolvedConfigItemResolvesInput(item)

PluginInputSpec == PluginInputInit /\ [][PluginInputNext]_vars

\* C38 (as stated): after any sequence of setInputValue and
\* checkIfResolvedConfigItemResolvesInput calls, inputsAllResolved is true
\* exactly when every input of inputState has isResolved = true.
C38_InputsAllResolved ==
    call.inputsAllResolved <=>
        \A key \in Range(InputKeys) : call.inputState[key].isResolved = "true"

\* ---------------------------------------------------------------- updateConfigFile

\* updateConfigFile (packages/core/src/config-engine/plugins.ts, lines
\* 394-570).  A string is a sequence of tokens, each counting as one
\* character; an offset is the number of tokens before it, as acorn's
\* `start` and `end` are numbers of characters.  The config files are
\* those of the shape
\*     [comment] [import x from 'm';] export default [withDmno(]{integrations: [..]}[)];
\* for which none of the errors of lines 480, 490, 495, 498, 503, 509 and
\* 511 is thrown.

\* string-utils' stringInsert(index, str, text), called at line 565
StringInsert(index, str, text) ==
    SubSeq(str, 1, index) \o text \o SubSeq(str, index + 1, Len(str))

\* String.prototype.startsWith
StartsWith(str, prefix) ==
    /\ Len(prefix) <= Len(str)
    /\ SubSeq(str, 1, Len(prefix)) = prefix

\* String.prototype.includes
Includes(str, part) ==
    \E i \in 1..(Len(str) - Len(part) + 1) : SubSeq(str, i, i + Len(part) - 1) = part

PluginCall == <<"plugin()">>

WrapFn == <<"withDmno">>

\* the items an `integrations` array is written with
ArrayItemLists ==
    {<<>>, <<<<"other()">>>>, <<PluginCall>>, <<PluginCall \o <<" as Integration">>>>,
     <<<<"other()">>, PluginCall>>}

\* the config files: with a leading comment or not, an import of the
\* module `existing` (or none) in one of the two styles, the export
\* wrapped or not
FileShapes ==
    [leading : BOOLEAN, existing : {"none", "dmno", "other"},
     style : {"single quotes, semicolon", "double quotes"},
     wrapped : BOOLEAN, items : ArrayItemLists]

QuoteOf(shape) == IF shape.style = "double quotes" THEN "\"" ELSE "'"

LeadingText(shape) == IF shape.leading THEN <<"// config\n">> ELSE <<>>

ImportText(shape) ==
    IF shape.existing = "none" THEN <<>>
    ELSE <<"import ", "x", " from ", QuoteOf(shape), shape.existing, QuoteOf(shape)>>
         \o (IF shape.style = "double quotes" THEN <<>> ELSE <<";">>)

BeforeDeclaration(shape) ==
    LeadingText(shape) \o ImportText(shape)
    \o (IF shape.existing = "none" THEN <<>> ELSE <<"\n">>)
    \o <<"export default ">>

BeforeArray(shape) ==
    BeforeDeclaration(shape)
    \o (IF shape.wrapped THEN WrapFn \o <<"(">> ELSE <<>>)
    \o <<"{", "integrations", ": ">>

RECURSIVE ArrayText(_, _)
ArrayText(items, i) ==
    IF i > Len(items) THEN <<>>
    ELSE items[i] \o (IF i < Len(items) THEN <<", ">> ELSE <<>>) \o ArrayText(items, i + 1)

\* the elements of the array's node: where each item starts and ends
RECURSIVE ArrayElements(_, _, _)
ArrayElements(items, i, at) ==
    IF i > Len(items) THEN <<>>
    ELSE <<[start |-> at, end |-> at + Len(items[i])]>>
         \o ArrayElements(items, i + 1, at + Len(items[i]) + 1)

DeclarationText(shape) ==
    (IF shape.wrapped THEN WrapFn \o <<"(">> ELSE <<>>)
    \o <<"{", "integrations", ": ", "[">> \o ArrayText(shape.items, 1) \o <<"]", "}">>
    \o (IF shape.wrapped THEN <<")">> ELSE <<>>)

OriginalSrc(shape) == BeforeDeclaration(shape) \o DeclarationText(shape) \o <<";">>

\* line 414: what the parser gives for the file
Parse(shape) ==
    [importNodes |->
        IF shape.existing = "none" THEN <<>>
        ELSE <<[start |-> Len(LeadingText(shape)),
                end |-> Len(LeadingText(shape)) + Len(ImportText(shape)),
                value |-> shape.existing, quote |-> QuoteOf(shape)]>>,
     declaration |->
        [start |-> Len(BeforeDeclaration(shape)),
         end |-> Len(BeforeDeclaration(shape)) + Len(DeclarationText(shape))],
     array |->
        [start |-> Len(BeforeArray(shape)),
         elements |-> ArrayElements(shape.items, 1, Len(BeforeArray(shape)) + 1)]]

\* opts.imports and opts.updates
ImportOpts == [moduleName : {"dmno"}, importDefaultAs : {"", "dmnoPlugin"}]

UpdateOpts ==
    {[path |-> <<"integrations">>, action |-> "arrayContains", code |-> PluginCall],
     [path |-> <<>>, action |-> "wrapWithFn", code |-> WrapFn]}

MaxImports == 1

MaxUpdates == 2

ListsUpTo(S, n) == UNION { [1..k -> S] : k \in 0..n }

\* lines 420-421: the quotes and the semicolon of the first import
QuoteStyle(ast) ==
    IF ast.importNodes # <<>> /\ ast.importNodes[1].quote = "\"" THEN "\"" ELSE "'"

Semi(src, ast) ==
    IF ast.importNodes = <<>> \/ src[ast.importNodes[1].end] = ";" THEN <<";">> ELSE <<>>

\* lines 434-445: the modification of one import that is not there yet
ImportMod(src, ast, singleImport) ==
    [insertAt |-> IF ast.importNodes # <<>> THEN ast.importNodes[1].start ELSE 0,
     text |-> <<"import ">>
              \o (IF singleImport.importDefaultAs # ""
                  THEN <<singleImport.importDefaultAs, " from ">> ELSE <<>>)
              \o <<QuoteStyle(ast), singleImport.moduleName, QuoteStyle(ast)>>
              \o Semi(src, ast) \o <<"\n">>]

\* line 426: the file already imports the module
AlreadyImported(ast, singleImport) ==
    \E n \in 1..Len(ast.importNodes) : ast.importNodes[n].value = singleImport.moduleName

\* lines 423-459
RECURSIVE ImportMods(_, _, _, _)
ImportMods(src, ast, imports, i) ==
    IF i > Len(imports) THEN <<>>
    ELSE (IF AlreadyImported(ast, imports[i]) THEN <<>>
          ELSE <<ImportMod(src, ast, imports[i])>>)
         \o ImportMods(src, ast, imports, i + 1)

\* lines 515-526 and 545: the code already has what the update asks for
AlreadySatisfied(src, ast, singleUpdate) ==
    IF singleUpdate.action = "arrayContains"
    THEN \E e \in 1..Len(ast.array.elements) :
            StartsWith(SubSeq(src, ast.array.elements[e].start + 1,
                              ast.array.elements[e].end), singleUpdate.code)
    ELSE Includes(SubSeq(src, ast.declaration.start + 1, ast.declaration.end),
                  singleUpdate.code)

\* lines 531-538 and 548-557: the modifications of one update
UpdateMod(ast, singleUpdate) ==
    IF singleUpdate.action = "arrayContains"
    THEN <<[insertAt |-> ast.array.start + 1,
            text |-> <<"\n    ">> \o singleUpdate.code
                     \o (IF ast.array.elements # <<>> THEN <<",">> ELSE <<>>)]>>
    ELSE <<[insertAt |-> ast.declaration.start, text |-> singleUpdate.code \o <<"(">>],
           [insertAt |-> ast.declaration.end, text |-> <<")">>]>>

\* every update that is not satisfied yet is collected
RECURSIVE UpdateModsOfAll(_, _, _, _)
UpdateModsOfAll(src, ast, updates, i) ==
    IF i > Len(updates) THEN <<>>
    ELSE (IF AlreadySatisfied(src, ast, updates[i]) THEN <<>>
          ELSE UpdateMod(ast, updates[i]))
         \o UpdateModsOfAll(src, ast, updates, i + 1)

\* lines 461-559: the loop over opts.updates, which `break` (529, 546)
\* leaves at the first update that is already satisfied
RECURSIVE UpdateMods(_, _, _, _)
UpdateMods(src, ast, updates, i) ==
    IF i > Len(updates) THEN <<>>
    ELSE IF AlreadySatisfied(src, ast, updates[i]) THEN <<>>
    ELSE UpdateMod(ast, updates[i]) \o UpdateMods(src, ast, updates, i + 1)

\* lines 562-567
RECURSIVE ApplyMods(_, _, _, _)
ApplyMods(mods, i, updatedSrc, insertedChars) ==
    IF i > Len(mods) THEN updatedSrc
    ELSE ApplyMods(mods, i + 1,
             StringInsert(insertedChars + mods[i].insertAt, updatedSrc, mods[i].text),
             insertedChars + Len(mods[i].text))

\* lines 394-570
UpdateConfigFile(originalSrc, ast, opts) ==
    ApplyMods(ImportMods(originalSrc, ast, opts.imports, 1)
                \o UpdateMods(originalSrc, ast, opts.updates, 1),
              1, originalSrc, 0)

\* The texts of the modifications of `mods` whose insertAt is p, in the
\* order they were collected.
RECURSIVE TextsAt(_, _, _)
TextsAt(mods, i, p) ==
    IF i > Len(mods) THEN <<>>
    ELSE (IF mods[i].insertAt = p THEN mods[i].text ELSE <<>>) \o TextsAt(mods, i + 1, p)

\* The source with the text of every modification at its offset of the
\* original source.
RECURSIVE InsertedAtOriginalOffsets(_, _, _)
InsertedAtOriginalOffsets(src, mods, p) ==
    TextsAt(mods, 1, p)
    \o (IF p >= Len(src) THEN <<>>
        ELSE <<src[p + 1]>> \o InsertedAtOriginalOffsets(src, mods, p + 1))

UpdateConfigInit ==
    /\ def \in { d \in Definitions : d.kind = KindsOfLeafTree /\ d.identity[1] = "static" }
    /\ resolvers = [r \in Resolvers |-> NewResolver(r)]
    /\ branches = [b \in 2..6 |-> NewBranch]
    /\ node = UnresolvedNode
    /\ stack = <<>>
    /\ trace = <<>>
    /\ callOutcome = "none"
    /\ escaped = NoError
    /\ attempts = 0
    /\ graph = NoGraph
    /\ schemaErrors = <<>>
    /\ \E shape \in FileShapes, imports \in ListsUpTo(ImportOpts, MaxImports),
          updates \in ListsUpTo(UpdateOpts, MaxUpdates) :
         call = [fn |-> "updateConfigFile", shape |-> shape,
                 opts |-> [imports |-> imports, updates |-> updates],
                 returned |-> FALSE, updatedSrc |-> <<>>]

CallUpdateConfigFile ==
    /\ ~call.returned
    /\ call' = [call EXCEPT !.returned = TRUE,
                            !.updatedSrc = UpdateConfigFile(OriginalSrc(call.shape),
                                                            Parse(call.shape), call.opts)]
    /\ UNCHANGED <<def, graph, schemaErrors, resolvers, branches, node, stack, trace,
                   callOutcome, escaped, attempts>>

UpdateConfigNext == CallUpdateConfigFile

UpdateConfigSpec == UpdateConfigInit /\ [][UpdateConfigNext]_vars

\* C39 (as stated): the result is the original source with the text of
\* every modification inserted at its offset of the original source,
\* whatever the order the modifications were collected in, and every
\* update that is not already satisfied is applied, also after an update
\* that was.
C39_InsertedAtOriginalOffsets ==
    call.returned =>
        call.updatedSrc =
            InsertedAtOriginalOffsets(
                OriginalSrc(call.shape),
                ImportMods(OriginalSrc(call.shape), Parse(call.shape), call.opts.imports, 1)
                  \o UpdateModsOfAll(OriginalSrc(call.shape), Parse(call.shape),
                                     call.opts.updates, 1),
                0)


====
